---- MODULE Spec2Model ----
(***************************************************************************)
(* stroke2code: a character grid, the predicate discovery over it          *)
(* (PatternAnalyzer), the C++ synthesizer (CodeGenerator) and the output   *)
(* verifier (OutputValidator).                                             *)
(*                                                                         *)
(* Conventions.  A JavaScript string that the code assembles from a        *)
(* template literal is a sequence of pieces, one piece per literal part    *)
(* and one per substitution, in order: `r == ${param}` is                  *)
(* <<"r == ", param>>.  A text that the code inspects character by         *)
(* character (the verifier's texts) is a sequence of one-character         *)
(* strings.  A Map is the sequence of its entries in insertion order.      *)
(* confidence is kept in tenths (1.0 is 10, 0.7 is 7, 0.5 is 5).           *)
(***************************************************************************)
EXTENDS Integers, Sequences, FiniteSets, TLC

VARIABLES
    grid,        \* the Grid under analysis: [rows, cols, cells]
    writes,      \* number of setCell calls made on grid since it was loaded;
                 \* for the editor, the number of handlers run
    analysis,    \* value returned by the last PatternAnalyzer.analyze()
    generated,   \* value returned by the last CodeGenerator.generate()
    dInput,      \* arguments of a direct discoverPredicate call
    dResult,     \* value returned (or fault raised) by that call
    vInput,      \* arguments of an OutputValidator.validate call
    vResult,     \* value returned by that call
    pInput,      \* arguments of a direct parameterizeValue call
    pResult,     \* value returned by that call
    cInput,      \* argument of a direct generateCoordinateCondition call
    cResult,     \* value returned by that call
    fInput,      \* argument of a formatDiffReport call
    fResult,     \* value returned by that call
    gCall,       \* the last call made on grid, its arguments and return value
    gSaved,      \* the value returned by the last grid.snapshot()
    canvas,      \* the CanvasManager, its FrameManager and their grids
    storage,     \* the localStorage item of StorageManager.KEY, parsed
    sSaved       \* history: the grids last saved under each name

vars == <<grid, writes, analysis, generated, dInput, dResult, vInput, vResult,
          pInput, pResult, cInput, cResult, fInput, fResult, gCall, gSaved,
          canvas, storage, sSaved>>

-----------------------------------------------------------------------------
(* Bounds of the model *)

MaxCells == 6
MaxStroke == 1
MaxTime == 1
MaxWrites == 1
MaxEditCells == 2
MaxTextCells == 3
MaxSuffix == 2
MaxSide == 5
MaxDimension == 12
MaxCoordRows == 3
MaxCoordCols == 9

\* the symbols drawn on the grids of the model
Chars == {"#", "@"}

\* the null of a `string | null` cell character
Null == "null"

\* null or undefined where the code expects an object, and "no call made yet"
Nil == [nil |-> TRUE]

\* a TypeError raised by reading a property of undefined
Fault == [fault |-> "TypeError"]

-----------------------------------------------------------------------------
(* Grid *)

EmptyCell == [char |-> Null, strokeId |-> -1, timestamp |-> 0]

CreateEmptyGrid(rows, cols) ==
    [r \in 0..(rows - 1) |-> [c \in 0..(cols - 1) |-> EmptyCell]]

NewGrid(rows, cols) ==
    [rows |-> rows, cols |-> cols, cells |-> CreateEmptyGrid(rows, cols)]

IsValidCoord(g, row, col) ==
    row >= 0 /\ row < g.rows /\ col >= 0 /\ col < g.cols

\* getCell answering a coordinate outside the grid with the nearest cell
GetCellNearest(g, row, col) ==
    g.cells[IF row < 0 THEN 0 ELSE IF row >= g.rows THEN g.rows - 1 ELSE row]
           [IF col < 0 THEN 0 ELSE IF col >= g.cols THEN g.cols - 1 ELSE col]

GetCell(g, row, col) ==
    IF ~IsValidCoord(g, row, col) THEN Nil ELSE g.cells[row][col]

\* setCell applying a write only if its stroke is newer than the stored one
SetCellAppliesNewerOnly(g, row, col, char, strokeId) ==
    /\ IsValidCoord(g, row, col)
    /\ (char = Null \/ strokeId > g.cells[row][col].strokeId)

\* setCell applies the write iff it is an erase or the stroke is not older
SetCellApplies(g, row, col, char, strokeId) ==
    /\ IsValidCoord(g, row, col)
    /\ (char = Null \/ strokeId >= g.cells[row][col].strokeId)

SetCell(g, row, col, char, strokeId, now) ==
    IF SetCellApplies(g, row, col, char, strokeId)
    THEN [g EXCEPT !.cells[row][col] =
              [char |-> char, strokeId |-> strokeId, timestamp |-> now]]
    ELSE g

\* clear(): this.cells = this.createEmptyGrid()
ClearGrid(g) == [g EXCEPT !.cells = CreateEmptyGrid(g.rows, g.cols)]

\* snapshot(): a deep copy of the cells
Snapshot(g) == g.cells

\* restore(snapshot): this.cells = a deep copy of the snapshot
Restore(g, snapshot) == [g EXCEPT !.cells = snapshot]

\* CoordAt scanning the cells column by column
CoordAtColumnMajor(g, k) == [row |-> k % g.rows, col |-> k \div g.rows]

\* the k-th coordinate of the row-major scan, k in 0 .. rows*cols - 1
CoordAt(g, k) == [row |-> k \div g.cols, col |-> k % g.cols]

HasKey(m, key) == \E i \in DOMAIN m : m[i].key = key

MapGet(m, key) == m[CHOOSE i \in DOMAIN m : m[i].key = key].value

\* MapPush with a new key put in front of the entries instead of after them
MapPushFront(m, key, coord) ==
    IF HasKey(m, key)
    THEN [i \in DOMAIN m |->
             IF m[i].key = key
             THEN [key |-> key, value |-> Append(m[i].value, coord)]
             ELSE m[i]]
    ELSE <<[key |-> key, value |-> <<coord>>]>> \o m

\* byChar.set(char, []) when absent, then byChar.get(char).push(coord)
MapPush(m, key, coord) ==
    IF HasKey(m, key)
    THEN [i \in DOMAIN m |->
             IF m[i].key = key
             THEN [key |-> key, value |-> Append(m[i].value, coord)]
             ELSE m[i]]
    ELSE Append(m, [key |-> key, value |-> <<coord>>])

RECURSIVE ScanByChar(_, _, _)
ScanByChar(g, k, byChar) ==
    IF k >= g.rows * g.cols THEN byChar
    ELSE LET co == CoordAt(g, k)
             ch == g.cells[co.row][co.col].char
         IN  IF ch # Null
             THEN ScanByChar(g, k + 1, MapPush(byChar, ch, co))
             ELSE ScanByChar(g, k + 1, byChar)

\* GetCellsByChar with the symbols touched by a stroke after the first one
\* listed before the others
GetCellsByCharLatestFirst(g) ==
    LET m == ScanByChar(g, 0, <<>>)
        late(e) == \E i \in DOMAIN e.value :
                       g.cells[e.value[i].row][e.value[i].col].strokeId > 0
    IN  SelectSeq(m, late) \o SelectSeq(m, LAMBDA e : ~late(e))

GetCellsByChar(g) == ScanByChar(g, 0, <<>>)

RECURSIVE CountOccupied(_, _)
CountOccupied(g, k) ==
    IF k >= g.rows * g.cols THEN 0
    ELSE LET co == CoordAt(g, k)
         IN  (IF g.cells[co.row][co.col].char # Null THEN 1 ELSE 0)
               + CountOccupied(g, k + 1)

GetOccupiedCount(g) == CountOccupied(g, 0)

\* cells[r][c].char ?? ' '
Glyph(g, r, c) ==
    IF g.cells[r][c].char = Null THEN " " ELSE g.cells[r][c].char

RowLine(g, r) == [i \in 1..g.cols |-> Glyph(g, r, i - 1)]

\* lines.join(sep): sep between consecutive lines, none after the last
RECURSIVE JoinLines(_, _)
JoinLines(lines, sep) ==
    IF Len(lines) = 0 THEN <<>>
    ELSE IF Len(lines) = 1 THEN lines[1]
    ELSE lines[1] \o sep \o JoinLines(Tail(lines), sep)

GridToString(g) ==
    JoinLines([i \in 1..g.rows |-> RowLine(g, i - 1)], <<"\n">>)

-----------------------------------------------------------------------------
(* PatternAnalyzer *)

Min(a, b) == IF a <= b THEN a ELSE b
Max(a, b) == IF a >= b THEN a ELSE b

CellSet(cells) == {cells[i] : i \in DOMAIN cells}

\* the strings parameterizeValue builds from dimName
DimForms(dimName) ==
    {dimName, dimName \o "-1", dimName \o "/2", dimName \o "-2",
     dimName \o "/4", dimName \o "/3"}

\* param.includes(dimName), for a param returned by parameterizeValue:
\* a decimal literal holds no letter
Includes(param, dimName) == param \in DimForms(dimName)

\* ParameterizeValue testing D-2 before floor(D/2)
ParameterizeValueMinusTwoFirst(value, dimension, dimName) ==
    IF value = 0 THEN "0"
    ELSE IF value = dimension THEN dimName
    ELSE IF value = dimension - 1 THEN dimName \o "-1"
    ELSE IF value = dimension - 2 THEN dimName \o "-2"
    ELSE IF value = dimension \div 2 THEN dimName \o "/2"
    ELSE IF dimension % 4 = 0 /\ value = dimension \div 4 THEN dimName \o "/4"
    ELSE IF dimension % 3 = 0 /\ value = dimension \div 3 THEN dimName \o "/3"
    ELSE ToString(value)

ParameterizeValue(value, dimension, dimName) ==
    IF value = 0 THEN "0"
    ELSE IF value = dimension THEN dimName
    ELSE IF value = dimension - 1 THEN dimName \o "-1"
    ELSE IF value = dimension \div 2 THEN dimName \o "/2"
    ELSE IF value = dimension - 2 THEN dimName \o "-2"
    ELSE IF dimension % 4 = 0 /\ value = dimension \div 4 THEN dimName \o "/4"
    ELSE IF dimension % 3 = 0 /\ value = dimension \div 3 THEN dimName \o "/3"
    ELSE ToString(value)

TryFill(cells, char, H, W) ==
    IF Len(cells) # H * W THEN Nil
    ELSE [type |-> "filled_rect", char |-> char,
          expression |-> <<"true">>,
          params |-> <<"H", "W">>, isScalable |-> TRUE, confidence |-> 10]

ExpectedBorder(H, W) ==
    {[row |-> 0, col |-> c] : c \in 0..(W - 1)}
      \cup {[row |-> H - 1, col |-> c] : c \in 0..(W - 1)}
      \cup {[row |-> r, col |-> 0] : r \in 1..(H - 2)}
      \cup {[row |-> r, col |-> W - 1] : r \in 1..(H - 2)}

TryBorder(cells, char, H, W) ==
    IF Cardinality(CellSet(cells)) # Cardinality(ExpectedBorder(H, W))
    THEN Nil
    ELSE IF \E key \in ExpectedBorder(H, W) : key \notin CellSet(cells)
    THEN Nil
    ELSE [type |-> "border", char |-> char,
          expression |-> <<"r == 0 || r == H-1 || c == 0 || c == W-1">>,
          params |-> <<"H", "W">>, isScalable |-> TRUE, confidence |-> 10]

\* TryDiagonal without the check of the number of cells
TryDiagonalAnyCount(cells, char, H, W) ==
    IF \E i \in DOMAIN cells : cells[i].row # cells[i].col THEN Nil
    ELSE [type |-> "diagonal", char |-> char,
          expression |-> <<"r == c">>,
          params |-> <<"H", "W">>, isScalable |-> TRUE, confidence |-> 10]

TryDiagonal(cells, char, H, W) ==
    IF Len(cells) # Min(H, W) THEN Nil
    ELSE IF \E i \in DOMAIN cells : cells[i].row # cells[i].col THEN Nil
    ELSE [type |-> "diagonal", char |-> char,
          expression |-> <<"r == c">>,
          params |-> <<"H", "W">>, isScalable |-> TRUE, confidence |-> 10]

TryAntiDiagonal(cells, char, H, W) ==
    IF Len(cells) # Min(H, W) THEN Nil
    ELSE IF \E i \in DOMAIN cells :
                cells[i].row + cells[i].col # Min(H, W) - 1
    THEN Nil
    ELSE [type |-> "anti_diagonal", char |-> char,
          expression |-> IF H <= W THEN <<"r + c == H - 1 && c < H">>
                                   ELSE <<"r + c == W - 1 && r < W">>,
          params |-> <<"H", "W">>, isScalable |-> TRUE, confidence |-> 10]

\* TryHorizontalLine reading cells[0].row before the length guard
TryHorizontalLineUnguarded(cells, char, H, W) ==
    IF Len(cells) = 0 THEN Fault
    ELSE IF Len(cells) # W THEN Nil
    ELSE IF \E i \in DOMAIN cells : cells[i].row # cells[1].row THEN Nil
    ELSE LET param == ParameterizeValue(cells[1].row, H, "H")
         IN  [type |-> "horizontal_line", char |-> char,
              expression |-> <<"r == ", param>>,
              params |-> IF Includes(param, "H") THEN <<"H", "W">>
                                                 ELSE <<"W">>,
              isScalable |-> Includes(param, "H"),
              confidence |-> IF Includes(param, "H") THEN 10 ELSE 5]

\* cells[0].row of an empty list reads a property of undefined
TryHorizontalLine(cells, char, H, W) ==
    IF Len(cells) # W THEN Nil
    ELSE IF Len(cells) = 0 THEN Fault
    ELSE IF \E i \in DOMAIN cells : cells[i].row # cells[1].row THEN Nil
    ELSE LET param == ParameterizeValue(cells[1].row, H, "H")
         IN  [type |-> "horizontal_line", char |-> char,
              expression |-> <<"r == ", param>>,
              params |-> IF Includes(param, "H") THEN <<"H", "W">>
                                                 ELSE <<"W">>,
              isScalable |-> Includes(param, "H"),
              confidence |-> IF Includes(param, "H") THEN 10 ELSE 5]

TryVerticalLine(cells, char, H, W) ==
    IF Len(cells) # H THEN Nil
    ELSE IF Len(cells) = 0 THEN Fault
    ELSE IF \E i \in DOMAIN cells : cells[i].col # cells[1].col THEN Nil
    ELSE LET param == ParameterizeValue(cells[1].col, W, "W")
         IN  [type |-> "vertical_line", char |-> char,
              expression |-> <<"c == ", param>>,
              params |-> IF Includes(param, "W") THEN <<"H", "W">>
                                                 ELSE <<"H">>,
              isScalable |-> Includes(param, "W"),
              confidence |-> IF Includes(param, "W") THEN 10 ELSE 5]

SetMin(S) == CHOOSE x \in S : \A y \in S : x <= y
SetMax(S) == CHOOSE x \in S : \A y \in S : x >= y

\* TryFilledRectangle reporting confidence 1.0 for literal bounds as well
TryFilledRectangleFullConfidence(cells, char, H, W) ==
    IF Len(cells) = 0 THEN Nil
    ELSE LET minR == SetMin({cells[i].row : i \in DOMAIN cells})
             maxR == SetMax({cells[i].row : i \in DOMAIN cells})
             minC == SetMin({cells[i].col : i \in DOMAIN cells})
             maxC == SetMax({cells[i].col : i \in DOMAIN cells})
             expectedCount == (maxR - minR + 1) * (maxC - minC + 1)
             r1 == ParameterizeValue(minR, H, "H")
             r2 == ParameterizeValue(maxR + 1, H, "H")
             c1 == ParameterizeValue(minC, W, "W")
             c2 == ParameterizeValue(maxC + 1, W, "W")
             isScalable == Includes(r1, "H") \/ Includes(r2, "H")
                             \/ Includes(c1, "W") \/ Includes(c2, "W")
         IN  IF Len(cells) # expectedCount THEN Nil
             ELSE IF \E r \in minR..maxR : \E c \in minC..maxC :
                         [row |-> r, col |-> c] \notin CellSet(cells)
             THEN Nil
             ELSE [type |-> "filled_rect", char |-> char,
                   expression |-> <<"r >= ", r1, " && r < ", r2,
                                    " && c >= ", c1, " && c < ", c2>>,
                   params |-> <<"H", "W">>,
                   isScalable |-> isScalable,
                   confidence |-> 10]

TryFilledRectangle(cells, char, H, W) ==
    IF Len(cells) = 0 THEN Nil
    ELSE LET minR == SetMin({cells[i].row : i \in DOMAIN cells})
             maxR == SetMax({cells[i].row : i \in DOMAIN cells})
             minC == SetMin({cells[i].col : i \in DOMAIN cells})
             maxC == SetMax({cells[i].col : i \in DOMAIN cells})
             expectedCount == (maxR - minR + 1) * (maxC - minC + 1)
             r1 == ParameterizeValue(minR, H, "H")
             r2 == ParameterizeValue(maxR + 1, H, "H")
             c1 == ParameterizeValue(minC, W, "W")
             c2 == ParameterizeValue(maxC + 1, W, "W")
             isScalable == Includes(r1, "H") \/ Includes(r2, "H")
                             \/ Includes(c1, "W") \/ Includes(c2, "W")
         IN  IF Len(cells) # expectedCount THEN Nil
             ELSE IF \E r \in minR..maxR : \E c \in minC..maxC :
                         [row |-> r, col |-> c] \notin CellSet(cells)
             THEN Nil
             ELSE [type |-> "filled_rect", char |-> char,
                   expression |-> <<"r >= ", r1, " && r < ", r2,
                                    " && c >= ", c1, " && c < ", c2>>,
                   params |-> <<"H", "W">>,
                   isScalable |-> isScalable,
                   confidence |-> IF isScalable THEN 10 ELSE 7]

Abs(x) == IF x < 0 THEN -x ELSE x

\* TryCheckerboard accepting only the count ceil(H*W/2)
TryCheckerboardExactCount(cells, char, H, W) ==
    LET expectedCount == (H * W + 1) \div 2
        evenCount == Cardinality({i \in DOMAIN cells :
                                     (cells[i].row + cells[i].col) % 2 = 0})
        oddCount == Len(cells) - evenCount
    IN  IF Len(cells) # expectedCount THEN Nil
        ELSE IF evenCount = Len(cells)
        THEN [type |-> "checkerboard", char |-> char,
              expression |-> <<"(r + c) % 2 == 0">>,
              params |-> <<"H", "W">>, isScalable |-> TRUE, confidence |-> 10]
        ELSE IF oddCount = Len(cells)
        THEN [type |-> "checkerboard", char |-> char,
              expression |-> <<"(r + c) % 2 == 1">>,
              params |-> <<"H", "W">>, isScalable |-> TRUE, confidence |-> 10]
        ELSE Nil

TryCheckerboard(cells, char, H, W) ==
    LET expectedCount == (H * W + 1) \div 2
        evenCount == Cardinality({i \in DOMAIN cells :
                                     (cells[i].row + cells[i].col) % 2 = 0})
        oddCount == Len(cells) - evenCount
    IN  IF Abs(Len(cells) - expectedCount) > 1 THEN Nil
        ELSE IF evenCount = Len(cells)
        THEN [type |-> "checkerboard", char |-> char,
              expression |-> <<"(r + c) % 2 == 0">>,
              params |-> <<"H", "W">>, isScalable |-> TRUE, confidence |-> 10]
        ELSE IF oddCount = Len(cells)
        THEN [type |-> "checkerboard", char |-> char,
              expression |-> <<"(r + c) % 2 == 1">>,
              params |-> <<"H", "W">>, isScalable |-> TRUE, confidence |-> 10]
        ELSE Nil

\* char.charCodeAt(0) of the symbols of the model
CharCodeAt(char) ==
    CASE char = "#" -> 35
      [] char = "@" -> 64
      [] char = " " -> 32
      [] OTHER -> 0

FallbackCoordinateSet(cells, char) ==
    [type |-> "coordinate_set", char |-> char,
     expression |-> <<"occupied_", ToString(CharCodeAt(char)),
                      ".count({r, c})">>,
     params |-> <<>>, isScalable |-> FALSE, confidence |-> 0]


\* Detectors with the filled-rectangle detector tried before Fill
DetectorsRectangleFirst(cells, char, H, W) ==
    << TryFilledRectangle(cells, char, H, W),
       TryFill(cells, char, H, W),
       TryBorder(cells, char, H, W),
       TryDiagonal(cells, char, H, W),
       TryAntiDiagonal(cells, char, H, W),
       TryHorizontalLine(cells, char, H, W),
       TryVerticalLine(cells, char, H, W),
       TryCheckerboard(cells, char, H, W) >>

\* the eight detectors of discoverPredicate, in the order of its list
Detectors(cells, char, H, W) ==
    << TryFill(cells, char, H, W),
       TryBorder(cells, char, H, W),
       TryDiagonal(cells, char, H, W),
       TryAntiDiagonal(cells, char, H, W),
       TryHorizontalLine(cells, char, H, W),
       TryVerticalLine(cells, char, H, W),
       TryFilledRectangle(cells, char, H, W),
       TryCheckerboard(cells, char, H, W) >>

\* DiscoverPredicate returning the result of the last detector that matches
DiscoverPredicateLastMatch(cells, char, H, W) ==
    LET d == Detectors(cells, char, H, W)
    IN  IF \E i \in DOMAIN d : d[i] # Nil
        THEN d[CHOOSE i \in DOMAIN d :
                   d[i] # Nil /\ \A j \in (i + 1)..Len(d) : d[j] = Nil]
        ELSE FallbackCoordinateSet(cells, char)

\* the first detector whose result is not null decides (a detector that
\* throws ends the loop with its fault); the fallback when all return null
DiscoverPredicate(cells, char, H, W) ==
    LET d == Detectors(cells, char, H, W)
    IN  IF \E i \in DOMAIN d : d[i] # Nil
        THEN d[CHOOSE i \in DOMAIN d :
                   d[i] # Nil /\ \A j \in 1..(i - 1) : d[j] = Nil]
        ELSE FallbackCoordinateSet(cells, char)

NotParameterizedWarning(char, count) ==
    <<"Character '", char, "': Pattern could not be parameterized. ",
      "Using coordinate set (", ToString(count), " points).">>

\* (the warning sign that opens the text in the source is not ASCII and is
\* left out of the model's piece)
CoordinateSetsWarning ==
    <<"\n", "WARNING: Some patterns use coordinate sets.\n",
      "Changing H or W will NOT scale these patterns proportionally.">>

\* analyze() over the entries of getCellsByChar() in insertion order
Analyze(g) ==
    LET byChar == GetCellsByChar(g)
        preds == [i \in DOMAIN byChar |->
                     DiscoverPredicate(byChar[i].value, byChar[i].key,
                                       g.rows, g.cols)]
        flagged == SelectSeq([i \in DOMAIN byChar |-> i],
                             LAMBDA i : ~preds[i].isScalable)
        isFullyParametric == \A i \in DOMAIN preds : preds[i].isScalable
    IN  IF \E i \in DOMAIN preds : preds[i] = Fault THEN Fault
        ELSE [predicates |-> preds,
              warnings |->
                  [k \in DOMAIN flagged |->
                      NotParameterizedWarning(byChar[flagged[k]].key,
                                              Len(byChar[flagged[k]].value))]
                    \o (IF isFullyParametric THEN <<>>
                        ELSE <<CoordinateSetsWarning>>),
              isFullyParametric |-> isFullyParametric]

-----------------------------------------------------------------------------
(* CodeGenerator *)

\* the cell-count above which generateCoordinateCondition groups by row
GroupThreshold == 20

\* the term count up to which the flat chain stays on one line
OneLineTerms == 5

CharToLiteral(char) ==
    CASE char = "\\" -> <<"'\\\\'">>
      [] char = "'" -> <<"'\\''">>
      [] char = "\n" -> <<"'\\n'">>
      [] char = "\t" -> <<"'\\t'">>
      [] OTHER -> <<"'", char, "'">>

\* `(r==${c.row} && c==${c.col})`
CoordTerm(row, col) ==
    <<"(r==", ToString(row), " && c==", ToString(col), ")">>

\* the rows of the cells in first-occurrence order (the keys of byRow)
RECURSIVE RowKeys(_)
RowKeys(cells) ==
    IF Len(cells) = 0 THEN <<>>
    ELSE LET rest == RowKeys(SubSeq(cells, 1, Len(cells) - 1))
             row == cells[Len(cells)].row
         IN  IF \E i \in DOMAIN rest : rest[i] = row THEN rest
             ELSE Append(rest, row)

\* byRow.get(row): the columns of that row in list order
ColsOfRow(cells, row) ==
    LET at == SelectSeq([i \in DOMAIN cells |-> i],
                        LAMBDA i : cells[i].row = row)
    IN  [k \in DOMAIN at |-> cells[at[k]].col]

GroupedTerm(row, cols) ==
    IF Len(cols) = 1 THEN CoordTerm(row, cols[1])
    ELSE <<"(r==", ToString(row), " && (">>
           \o JoinLines([k \in DOMAIN cols |-> <<"c==", ToString(cols[k])>>],
                        <<" || ">>)
           \o <<"))">>

GenerateGroupedCondition(cells) ==
    LET rows == RowKeys(cells)
    IN  JoinLines([k \in DOMAIN rows |->
                      GroupedTerm(rows[k], ColsOfRow(cells, rows[k]))],
                  <<" ||\n                ">>)

\* GenerateCoordinateCondition grouping by row from 20 cells on
GenerateCoordinateConditionFromThreshold(cells) ==
    IF Len(cells) = 0 THEN <<"false">>
    ELSE IF Len(cells) >= GroupThreshold THEN GenerateGroupedCondition(cells)
    ELSE LET conditions ==
                 [i \in DOMAIN cells |-> CoordTerm(cells[i].row, cells[i].col)]
         IN  IF Len(conditions) <= OneLineTerms
             THEN JoinLines(conditions, <<" || ">>)
             ELSE JoinLines(conditions, <<" ||\n                ">>)

GenerateCoordinateCondition(cells) ==
    IF Len(cells) = 0 THEN <<"false">>
    ELSE IF Len(cells) > GroupThreshold THEN GenerateGroupedCondition(cells)
    ELSE LET conditions ==
                 [i \in DOMAIN cells |-> CoordTerm(cells[i].row, cells[i].col)]
         IN  IF Len(conditions) <= OneLineTerms
             THEN JoinLines(conditions, <<" || ">>)
             ELSE JoinLines(conditions, <<" ||\n                ">>)

\* this.cellsByChar.get(pred.char) || []
PredicateToCondition(pred, cellsByChar) ==
    IF pred.type = "coordinate_set"
    THEN GenerateCoordinateCondition(
             IF HasKey(cellsByChar, pred.char)
             THEN MapGet(cellsByChar, pred.char) ELSE <<>>)
    ELSE pred.expression

\* GenerateConditions walking the predicates from the last to the first
GenerateConditionsReversed(predicates, cellsByChar) ==
    IF Len(predicates) = 0 THEN <<"            cout << ' ';">>
    ELSE JoinLines(
             [i \in DOMAIN predicates |->
                 (IF i = 1 THEN <<"            if (">>
                           ELSE <<"            } else if (">>)
                   \o PredicateToCondition(
                          predicates[Len(predicates) + 1 - i], cellsByChar)
                   \o <<") {", "\n", "                cout << ">>
                   \o CharToLiteral(predicates[Len(predicates) + 1 - i].char)
                   \o <<";">>]
               \o << <<"            } else {">>,
                     <<"                cout << ' ';">>,
                     <<"            }">> >>,
             <<"\n">>)

GenerateConditions(predicates, cellsByChar) ==
    IF Len(predicates) = 0 THEN <<"            cout << ' ';">>
    ELSE JoinLines(
             [i \in DOMAIN predicates |->
                 (IF i = 1 THEN <<"            if (">>
                           ELSE <<"            } else if (">>)
                   \o PredicateToCondition(predicates[i], cellsByChar)
                   \o <<") {", "\n", "                cout << ">>
                   \o CharToLiteral(predicates[i].char) \o <<";">>]
               \o << <<"            } else {">>,
                     <<"                cout << ' ';">>,
                     <<"            }">> >>,
             <<"\n">>)

BuildCode(predicates, H, W, cellsByChar) ==
    JoinLines(
        << <<"#include <iostream>">>,
           <<"using namespace std;">>,
           <<"">>,
           <<"int main() {">>,
           <<"    int H = ", ToString(H), ";  // Height - change to scale">>,
           <<"    int W = ", ToString(W), ";  // Width - change to scale">>,
           <<"">>,
           <<"    for (int r = 0; r < H; r++) {">>,
           <<"        for (int c = 0; c < W; c++) {">>,
           GenerateConditions(predicates, cellsByChar),
           <<"        }">>,
           <<"        cout << endl;">>,
           <<"    }">>,
           <<"">>,
           <<"    return 0;">>,
           <<"}">> >>,
        <<"\n">>)

\* (the warning sign that opens the text in the source is not ASCII and is
\* left out of the model's piece)
FixedCoordinatesWarning ==
    <<"Contains fixed coordinates - will not scale with H/W changes.">>

\* Generate deriving isScalable as the AND of the predicates' isScalable
GenerateConjunction(predicates, H, W, cellsByChar) ==
    LET hasCoordinateSets ==
            \E i \in DOMAIN predicates : predicates[i].type = "coordinate_set"
    IN  [code |-> BuildCode(predicates, H, W, cellsByChar),
         params |-> <<[key |-> "H", value |-> H], [key |-> "W", value |-> W]>>,
         warnings |-> IF hasCoordinateSets THEN <<FixedCoordinatesWarning>>
                                           ELSE <<>>,
         isScalable |-> \A i \in DOMAIN predicates : predicates[i].isScalable]

Generate(predicates, H, W, cellsByChar) ==
    LET hasCoordinateSets ==
            \E i \in DOMAIN predicates : predicates[i].type = "coordinate_set"
    IN  [code |-> BuildCode(predicates, H, W, cellsByChar),
         params |-> <<[key |-> "H", value |-> H], [key |-> "W", value |-> W]>>,
         warnings |-> IF hasCoordinateSets THEN <<FixedCoordinatesWarning>>
                                           ELSE <<>>,
         isScalable |-> ~hasCoordinateSets]

-----------------------------------------------------------------------------
(* OutputValidator *)

\* the white space String.prototype.trimEnd strips, among the characters of
\* the model's texts
WhiteSpace == {" ", "\t", "\n"}

RECURSIVE TrimEnd(_)
TrimEnd(text) ==
    IF Len(text) > 0 /\ text[Len(text)] \in WhiteSpace
    THEN TrimEnd(SubSeq(text, 1, Len(text) - 1))
    ELSE text

\* text.split('\n')
RECURSIVE SplitLines(_)
SplitLines(text) ==
    IF \A i \in DOMAIN text : text[i] # "\n" THEN <<text>>
    ELSE LET i == CHOOSE k \in DOMAIN text :
                      text[k] = "\n" /\ \A j \in 1..(k - 1) : text[j] # "\n"
         IN  <<SubSeq(text, 1, i - 1)>>
               \o SplitLines(SubSeq(text, i + 1, Len(text)))

FormatChar(char) ==
    CASE char = " " -> <<"(space)">>
      [] char = "\t" -> <<"(tab)">>
      [] char = "\n" -> <<"(newline)">>
      [] OTHER -> <<"'", char, "'">>

\* lines[r] ?? ''
LineAt(lines, r) == IF r < Len(lines) THEN lines[r + 1] ELSE <<>>

\* line[c] ?? ' '
CharAt(line, c) == IF c < Len(line) THEN line[c + 1] ELSE " "

\* ComputeDiffRow comparing only the columns both lines have
ComputeDiffRowOverlap(expLine, actLine, r) ==
    LET minCols == Min(Len(expLine), Len(actLine))
        differing == SelectSeq([i \in 1..minCols |-> i - 1],
                               LAMBDA c : CharAt(expLine, c) # CharAt(actLine, c))
    IN  [k \in DOMAIN differing |->
            [row |-> r, col |-> differing[k],
             expected |-> FormatChar(CharAt(expLine, differing[k])),
             actual |-> FormatChar(CharAt(actLine, differing[k]))]]

\* the inner loop of computeDiff: the differences of row r, by column
ComputeDiffRow(expLine, actLine, r) ==
    LET maxCols == Max(Len(expLine), Len(actLine))
        differing == SelectSeq([i \in 1..maxCols |-> i - 1],
                               LAMBDA c : CharAt(expLine, c) # CharAt(actLine, c))
    IN  [k \in DOMAIN differing |->
            [row |-> r, col |-> differing[k],
             expected |-> FormatChar(CharAt(expLine, differing[k])),
             actual |-> FormatChar(CharAt(actLine, differing[k]))]]

\* the outer loop of computeDiff, from row r on
RECURSIVE ComputeDiffFrom(_, _, _)
ComputeDiffFrom(expectedLines, actualLines, r) ==
    IF r >= Max(Len(expectedLines), Len(actualLines)) THEN <<>>
    ELSE ComputeDiffRow(LineAt(expectedLines, r), LineAt(actualLines, r), r)
           \o ComputeDiffFrom(expectedLines, actualLines, r + 1)

ComputeDiff(expected, actual) ==
    ComputeDiffFrom(SplitLines(expected), SplitLines(actual), 0)

Validate(g, programOutput) ==
    LET expected == GridToString(g)
        actual == TrimEnd(programOutput)
    IN  IF expected = actual
        THEN [valid |-> TRUE, differences |-> <<>>]
        ELSE [valid |-> FALSE, differences |-> ComputeDiff(expected, actual)]

\* the number of differences formatDiffReport itemizes
ShownLimit == 10

\* `  Row ${diff.row}, Col ${diff.col}: ` + `expected ${..}, got ${..}`
DiffLine(diff) ==
    <<"  Row ", ToString(diff.row), ", Col ", ToString(diff.col), ": ",
      "expected ">> \o diff.expected \o <<", got ">> \o diff.actual

\* formatDiffReport counting the remaining differences from the limit on
FormatDiffReportMoreFromLimit(result) ==
    IF result.valid THEN <<"Output matches grid exactly.">>
    ELSE LET n == Len(result.differences)
             shown == SubSeq(result.differences, 1, Min(n, ShownLimit))
             lines == <<<<"Output does not match grid:">>, <<>>>>
                        \o [i \in DOMAIN shown |-> DiffLine(shown[i])]
                        \o (IF n >= ShownLimit
                            THEN <<<<"  ... and ", ToString(n - ShownLimit),
                                     " more differences">>>>
                            ELSE <<>>)
         IN  JoinLines(lines, <<"\n">>)

\* OutputValidator.formatDiffReport(result); the check mark and the cross
\* that open the two headers are left out of the pieces
FormatDiffReport(result) ==
    IF result.valid THEN <<"Output matches grid exactly.">>
    ELSE LET n == Len(result.differences)
             shown == SubSeq(result.differences, 1, Min(n, ShownLimit))
             lines == <<<<"Output does not match grid:">>, <<>>>>
                        \o [i \in DOMAIN shown |-> DiffLine(shown[i])]
                        \o (IF n > ShownLimit
                            THEN <<<<"  ... and ", ToString(n - ShownLimit),
                                     " more differences">>>>
                            ELSE <<>>)
         IN  JoinLines(lines, <<"\n">>)

-----------------------------------------------------------------------------
(* The emitted C++ program, run: int arithmetic over r, c, H, W *)

\* above every decimal literal the model can put into a condition
MaxLiteral == MaxCells + MaxSide + MaxDimension + MaxCoordRows + MaxCoordCols

\* the int a decimal literal denotes
ParseInt(s) == CHOOSE n \in 0..MaxLiteral : ToString(n) = s

\* the value of an operand written by parameterizeValue; `/` is int division
EvalParam(s, H, W) ==
    CASE s = "H" -> H
      [] s = "H-1" -> H - 1
      [] s = "H/2" -> H \div 2
      [] s = "H-2" -> H - 2
      [] s = "H/4" -> H \div 4
      [] s = "H/3" -> H \div 3
      [] s = "W" -> W
      [] s = "W-1" -> W - 1
      [] s = "W/2" -> W \div 2
      [] s = "W-2" -> W - 2
      [] s = "W/4" -> W \div 4
      [] s = "W/3" -> W \div 3
      [] OTHER -> ParseInt(s)

\* index of the piece "))" that closes the column list opened before j
RECURSIVE EndOfCols(_, _)
EndOfCols(p, j) == IF p[j] = "))" THEN j ELSE EndOfCols(p, j + 1)

\* a chain of (r==.. && c==..) and (r==.. && (c==.. || ..)) terms from piece i
RECURSIVE EvalDisjunction(_, _, _, _)
EvalDisjunction(p, i, r, c) ==
    IF i > Len(p) THEN FALSE
    ELSE IF p[i + 2] = " && c=="
    THEN \/ (r = ParseInt(p[i + 1]) /\ c = ParseInt(p[i + 3]))
         \/ EvalDisjunction(p, i + 6, r, c)
    ELSE LET e == EndOfCols(p, i + 3)
         IN  \/ /\ r = ParseInt(p[i + 1])
                /\ \E j \in (i + 3)..(e - 1) :
                       p[j] = "c==" /\ c = ParseInt(p[j + 1])
             \/ EvalDisjunction(p, e + 2, r, c)

\* index of the first piece equal to s from index i on (0 when there is none)
RECURSIVE IndexOf(_, _, _)
IndexOf(p, s, i) ==
    IF i > Len(p) THEN 0
    ELSE IF p[i] = s THEN i
    ELSE IndexOf(p, s, i + 1)

\* the text between the line that opens the loop over c and the line that
\* closes it: the body of the inner loop
LoopBody(code) ==
    LET open == IndexOf(code, "        for (int c = 0; c < W; c++) {", 1)
        after == IndexOf(code, "        cout << endl;", 1)
    IN  SubSeq(code, open + 2, after - 4)

\* the guarded branches of an if / else-if chain read from piece i on: the
\* keyword that opens each, its condition, the two pieces between the
\* condition and the literal, the literal printed; rest is the index of
\* the first piece after the last branch
RECURSIVE ParseBranches(_, _)
ParseBranches(p, i) ==
    IF i > Len(p) \/ p[i] \notin {"            if (", "            } else if ("}
    THEN [branches |-> <<>>, rest |-> i]
    ELSE LET e == IndexOf(p, ") {", i + 1)
             s == IndexOf(p, ";", e + 3)
             tail == ParseBranches(p, s + 2)
         IN  [branches |->
                  <<[opener |-> p[i],
                     condition |-> SubSeq(p, i + 1, e - 1),
                     then |-> SubSeq(p, e + 1, e + 2),
                     prints |-> SubSeq(p, e + 3, s - 1)]>> \o tail.branches,
              rest |-> tail.rest]

\* the coordinates at which a chain of (r==.. && c==..) and
\* (r==.. && (c==.. || ..)) terms, read from piece i on, is true
RECURSIVE DisjunctionCells(_, _)
DisjunctionCells(p, i) ==
    IF i > Len(p) THEN {}
    ELSE IF p[i + 2] = " && c=="
    THEN {[row |-> ParseInt(p[i + 1]), col |-> ParseInt(p[i + 3])]}
           \cup DisjunctionCells(p, i + 6)
    ELSE LET e == EndOfCols(p, i + 3)
         IN  {[row |-> ParseInt(p[i + 1]), col |-> ParseInt(p[j + 1])] :
                 j \in {k \in (i + 3)..(e - 1) : p[k] = "c=="}}
               \cup DisjunctionCells(p, e + 2)

\* the truth of an emitted condition at cell (r, c) of an H x W run
EvalCondition(cond, r, c, H, W) ==
    CASE cond = <<"true">> -> TRUE
      [] cond = <<"false">> -> FALSE
      [] cond = <<"r == 0 || r == H-1 || c == 0 || c == W-1">> ->
             r = 0 \/ r = H - 1 \/ c = 0 \/ c = W - 1
      [] cond = <<"r == c">> -> r = c
      [] cond = <<"r + c == H - 1 && c < H">> -> r + c = H - 1 /\ c < H
      [] cond = <<"r + c == W - 1 && r < W">> -> r + c = W - 1 /\ r < W
      [] cond = <<"(r + c) % 2 == 0">> -> (r + c) % 2 = 0
      [] cond = <<"(r + c) % 2 == 1">> -> (r + c) % 2 = 1
      [] Len(cond) = 2 /\ cond[1] = "r == " -> r = EvalParam(cond[2], H, W)
      [] Len(cond) = 2 /\ cond[1] = "c == " -> c = EvalParam(cond[2], H, W)
      [] Len(cond) = 8 /\ cond[1] = "r >= " ->
             /\ r >= EvalParam(cond[2], H, W) /\ r < EvalParam(cond[4], H, W)
             /\ c >= EvalParam(cond[6], H, W) /\ c < EvalParam(cond[8], H, W)
      [] OTHER -> EvalDisjunction(cond, 1, r, c)

\* the glyph a parsed chain prints at (r, c): the character between the
\* quotes of the first branch whose condition holds, a blank from the else
BranchGlyph(branches, r, c, H, W) ==
    LET holds(k) == EvalCondition(branches[k].condition, r, c, H, W)
    IN  IF \E k \in DOMAIN branches : holds(k)
        THEN branches[CHOOSE k \in DOMAIN branches :
                          holds(k) /\ \A j \in 1..(k - 1) : ~holds(j)].prints[2]
        ELSE " "

\* the if / else-if chain: the first branch whose condition holds prints its
\* symbol, the trailing else a blank
ChainGlyph(predicates, cellsByChar, r, c, H, W) ==
    LET holds(i) == EvalCondition(
                        PredicateToCondition(predicates[i], cellsByChar),
                        r, c, H, W)
    IN  IF \E i \in DOMAIN predicates : holds(i)
        THEN predicates[CHOOSE i \in DOMAIN predicates :
                            holds(i) /\ \A j \in 1..(i - 1) : ~holds(j)].char
        ELSE " "

\* the glyphs the two loops print for row r
ChainRow(predicates, cellsByChar, r, H, W) ==
    [i \in 1..W |-> ChainGlyph(predicates, cellsByChar, r, i - 1, H, W)]

\* the rows of the run, newline-joined
EvaluateChain(predicates, cellsByChar, H, W) ==
    JoinLines([i \in 1..H |-> ChainRow(predicates, cellsByChar, i - 1, H, W)],
              <<"\n">>)

\* the cells of [0,H) x [0,W) at which a condition holds
SelectedCells(cond, H, W) ==
    {co \in [row : 0..(H - 1), col : 0..(W - 1)] :
        EvalCondition(cond, co.row, co.col, H, W)}

-----------------------------------------------------------------------------
(* Analysis of a grid: setCell edits, then analyze() and generate() *)

\* a grid as loadFrames builds it: every symbol written by stroke 0
LoadedGrid(rows, cols, chars) ==
    [rows |-> rows, cols |-> cols,
     cells |-> [r \in 0..(rows - 1) |-> [c \in 0..(cols - 1) |->
                  IF chars[r][c] = Null THEN EmptyCell
                  ELSE [char |-> chars[r][c], strokeId |-> 0,
                        timestamp |-> 1]]]]

IdleDiscover == dInput = Nil /\ dResult = Nil
IdleValidate == vInput = Nil /\ vResult = Nil
IdleParameterize == pInput = Nil /\ pResult = Nil
IdleCondition == cInput = Nil /\ cResult = Nil
IdleFormat == fInput = Nil /\ fResult = Nil
IdleGrid == gCall = Nil /\ gSaved = Nil
IdleCanvas == canvas = Nil
IdleStorage == storage = Nil /\ sSaved = Nil

\* the loaded grids of rows x cols cells over symbols syms
LoadedGrids(rows, cols, syms) ==
    {LoadedGrid(rows, cols, chars) :
        chars \in [0..(rows - 1) -> [0..(cols - 1) -> syms \cup {Null}]]}

InitAnalysis ==
    /\ \E rows \in 1..MaxCells, cols \in 1..MaxCells :
          /\ rows * cols <= MaxCells
          /\ grid \in LoadedGrids(rows, cols, Chars)
    /\ writes = 0
    /\ analysis = Nil
    /\ generated = Nil
    /\ IdleDiscover
    /\ IdleValidate
    /\ IdleParameterize
    /\ IdleCondition
    /\ IdleFormat
    /\ IdleGrid
    /\ IdleCanvas
    /\ IdleStorage

\* new PatternAnalyzer(grid).analyze(), then new CodeGenerator(predicates,
\* grid.rows, grid.cols, analyzer.getCellsByChar()).generate()
AnalyzeGrid ==
    /\ analysis = Nil
    /\ analysis' = Analyze(grid)
    /\ generated' = IF analysis' = Fault THEN Fault
                    ELSE Generate(analysis'.predicates, grid.rows, grid.cols,
                                  GetCellsByChar(grid))
    /\ UNCHANGED <<grid, writes, dInput, dResult, vInput, vResult,
                   pInput, pResult, cInput, cResult,
                   fInput, fResult, gCall, gSaved, canvas, storage,
                   sSaved>>

NextAnalysis == AnalyzeGrid

AnalysisSpec == InitAnalysis /\ [][NextAnalysis]_vars

-----------------------------------------------------------------------------
(* Edits of a loaded grid by setCell, then analyze() and generate() *)

InitEdit ==
    /\ \E rows \in 1..MaxEditCells, cols \in 1..MaxEditCells :
          /\ rows * cols <= MaxEditCells
          /\ grid \in LoadedGrids(rows, cols, Chars)
    /\ writes = 0
    /\ analysis = Nil
    /\ generated = Nil
    /\ IdleDiscover
    /\ IdleValidate
    /\ IdleParameterize
    /\ IdleCondition
    /\ IdleFormat
    /\ IdleGrid
    /\ IdleCanvas
    /\ IdleStorage

\* Grid.setCell(row, col, char, strokeId) at clock reading now; a value
\* returned by an earlier analysis is dropped
GridSetCell ==
    /\ writes < MaxWrites
    /\ \E row \in -1..grid.rows, col \in -1..grid.cols,
          char \in Chars \cup {Null}, strokeId \in 0..MaxStroke,
          now \in 1..MaxTime :
         grid' = SetCell(grid, row, col, char, strokeId, now)
    /\ writes' = writes + 1
    /\ analysis' = Nil
    /\ generated' = Nil
    /\ UNCHANGED <<dInput, dResult, vInput, vResult,
                   pInput, pResult, cInput, cResult,
                   fInput, fResult, gCall, gSaved, canvas, storage,
                   sSaved>>

NextEdit == GridSetCell \/ AnalyzeGrid

EditSpec == InitEdit /\ [][NextEdit]_vars

-----------------------------------------------------------------------------
(* GridSpec: calls on one Grid, new or loaded *)

\* the cells of the grid and the number of calls made on it
MaxGridCells == 2
MaxGridCalls == 2

InitGrid ==
    /\ \E rows \in 1..MaxGridCells, cols \in 1..MaxGridCells :
          /\ rows * cols <= MaxGridCells
          /\ grid \in LoadedGrids(rows, cols, Chars)
    /\ writes = 0
    /\ analysis = Nil
    /\ generated = Nil
    /\ gCall = Nil
    /\ gSaved = Nil
    /\ IdleDiscover
    /\ IdleValidate
    /\ IdleParameterize
    /\ IdleCondition
    /\ IdleFormat
    /\ IdleCanvas
    /\ IdleStorage

\* what a call leaves alone besides the grid, its call record and snapshot
GridFrame ==
    /\ writes < MaxGridCalls
    /\ writes' = writes + 1
    /\ UNCHANGED <<analysis, generated, dInput, dResult, vInput, vResult,
                   pInput, pResult, cInput, cResult, fInput, fResult, canvas,
                   storage, sSaved>>

\* grid.setCell(row, col, char, strokeId); the clock reads the number of
\* the call
CallSetCell ==
    /\ GridFrame
    /\ \E row \in -1..grid.rows, col \in -1..grid.cols,
          char \in Chars \cup {Null}, strokeId \in 0..MaxStroke :
         /\ grid' = SetCell(grid, row, col, char, strokeId, writes + 1)
         /\ gCall' = [op |-> "setCell", row |-> row, col |-> col,
                      char |-> char, strokeId |-> strokeId,
                      returned |->
                          SetCellApplies(grid, row, col, char, strokeId)]
    /\ UNCHANGED gSaved

\* grid.getCell(row, col)
CallGetCell ==
    /\ GridFrame
    /\ \E row \in -1..grid.rows, col \in -1..grid.cols :
         gCall' = [op |-> "getCell", row |-> row, col |-> col,
                   returned |-> GetCell(grid, row, col)]
    /\ UNCHANGED <<grid, gSaved>>

\* grid.clear()
CallClear ==
    /\ GridFrame
    /\ grid' = ClearGrid(grid)
    /\ gCall' = [op |-> "clear"]
    /\ UNCHANGED gSaved

\* grid.snapshot()
CallSnapshot ==
    /\ GridFrame
    /\ gSaved' = [cells |-> Snapshot(grid)]
    /\ gCall' = [op |-> "snapshot"]
    /\ UNCHANGED grid

\* grid.restore(snapshot) with a snapshot the grid returned earlier
CallRestore ==
    /\ GridFrame
    /\ gSaved # Nil
    /\ grid' = Restore(grid, gSaved.cells)
    /\ gCall' = [op |-> "restore"]
    /\ UNCHANGED gSaved

NextGrid ==
    \/ CallSetCell
    \/ CallGetCell
    \/ CallClear
    \/ CallSnapshot
    \/ CallRestore

GridSpec == InitGrid /\ [][NextGrid]_vars

-----------------------------------------------------------------------------
(* discoverPredicate called on a coordinate set *)

\* the coordinates of S in row-major scan order, as getCellsByChar lists them
RowMajorList(S, H, W) ==
    SelectSeq([k \in 1..(H * W) |-> [row |-> (k - 1) \div W,
                                     col |-> (k - 1) % W]],
              LAMBDA co : co \in S)

IdleAnalysis ==
    /\ grid = Nil
    /\ writes = 0
    /\ analysis = Nil
    /\ generated = Nil

InitDiscover ==
    /\ \E H \in 1..MaxCells, W \in 1..MaxCells, char \in Chars :
         /\ H * W <= MaxCells
         /\ \E S \in SUBSET [row : 0..(H - 1), col : 0..(W - 1)] :
               dInput = [cells |-> RowMajorList(S, H, W), char |-> char,
                         H |-> H, W |-> W]
    /\ dResult = Nil
    /\ IdleAnalysis
    /\ IdleValidate
    /\ IdleParameterize
    /\ IdleCondition
    /\ IdleFormat
    /\ IdleGrid
    /\ IdleCanvas
    /\ IdleStorage

\* discoverPredicate(cells, char) of an analyzer built for an H x W grid
Discover ==
    /\ dResult = Nil
    /\ dResult' = DiscoverPredicate(dInput.cells, dInput.char,
                                    dInput.H, dInput.W)
    /\ UNCHANGED <<dInput, grid, writes, analysis, generated, vInput, vResult,
                   pInput, pResult, cInput, cResult,
                   fInput, fResult, gCall, gSaved, canvas, storage,
                   sSaved>>

NextDiscover == Discover

DiscoverSpec == InitDiscover /\ [][NextDiscover]_vars

-----------------------------------------------------------------------------
(* discoverPredicate called on the shapes its testers look for, and on each *)
(* of them with one cell missing, on grids of up to MaxSide x MaxSide cells *)

\* the cells of rows r1..r2 and columns c1..c2 (none when a range is empty)
Block(r1, r2, c1, c2) == [row : r1..r2, col : c1..c2]

\* the cells of the grid whose (row + col) % 2 is parity
ParityClass(H, W, parity) ==
    {co \in [row : 0..(H - 1), col : 0..(W - 1)] :
        (co.row + co.col) % 2 = parity}

MainDiagonal(H, W) ==
    {[row |-> i, col |-> i] : i \in 0..(Min(H, W) - 1)}

AntiDiagonal(H, W) ==
    {[row |-> i, col |-> Min(H, W) - 1 - i] : i \in 0..(Min(H, W) - 1)}

BaseShapes(H, W) ==
    {Block(r1, r2, c1, c2) : r1 \in 0..(H - 1), r2 \in 0..(H - 1),
                             c1 \in 0..(W - 1), c2 \in 0..(W - 1)}
      \cup {ParityClass(H, W, parity) : parity \in {0, 1}}
      \cup {MainDiagonal(H, W), AntiDiagonal(H, W), ExpectedBorder(H, W)}

Shapes(H, W) ==
    BaseShapes(H, W)
      \cup UNION {{B \ {co} : co \in B} : B \in BaseShapes(H, W)}

InitShape ==
    /\ \E H \in 1..MaxSide, W \in 1..MaxSide, char \in Chars :
         \E S \in Shapes(H, W) :
             dInput = [cells |-> RowMajorList(S, H, W), char |-> char,
                       H |-> H, W |-> W]
    /\ dResult = Nil
    /\ IdleAnalysis
    /\ IdleValidate
    /\ IdleParameterize
    /\ IdleCondition
    /\ IdleFormat
    /\ IdleGrid
    /\ IdleCanvas
    /\ IdleStorage

NextShape == Discover

ShapeSpec == InitShape /\ [][NextShape]_vars

-----------------------------------------------------------------------------
(* parameterizeValue called on a value between 0 and the dimension *)

InitParameterize ==
    /\ \E dimension \in 1..MaxDimension, dimName \in {"H", "W"} :
         \E value \in 0..dimension :
             pInput = [value |-> value, dimension |-> dimension,
                       dimName |-> dimName]
    /\ pResult = Nil
    /\ IdleAnalysis
    /\ IdleDiscover
    /\ IdleValidate
    /\ IdleCondition
    /\ IdleFormat
    /\ IdleGrid
    /\ IdleCanvas
    /\ IdleStorage

\* parameterizeValue(value, dimension, dimName)
Parameterize ==
    /\ pResult = Nil
    /\ pResult' = [text |-> ParameterizeValue(pInput.value, pInput.dimension,
                                              pInput.dimName)]
    /\ UNCHANGED <<pInput, grid, writes, analysis, generated, dInput, dResult,
                   vInput, vResult, cInput, cResult,
                   fInput, fResult, gCall, gSaved, canvas, storage,
                   sSaved>>

NextParameterize == Parameterize

ParameterizeSpec == InitParameterize /\ [][NextParameterize]_vars

-----------------------------------------------------------------------------
(* generateCoordinateCondition called on a coordinate list *)

\* the cells of columns first..(n[r] - 1) of each row r, in row-major order
RowPrefixes(n, first) ==
    RowMajorList({co \in [row : 0..(MaxCoordRows - 1),
                          col : 0..(MaxCoordCols - 1)] :
                     co.col >= first /\ co.col < n[co.row]},
                 MaxCoordRows, MaxCoordCols)

InitCondition ==
    /\ \E n \in [0..(MaxCoordRows - 1) -> 0..MaxCoordCols], first \in {0, 1} :
          cInput = [cells |-> RowPrefixes(n, first)]
    /\ cResult = Nil
    /\ IdleAnalysis
    /\ IdleDiscover
    /\ IdleValidate
    /\ IdleParameterize
    /\ IdleFormat
    /\ IdleGrid
    /\ IdleCanvas
    /\ IdleStorage

\* generateCoordinateCondition(cells)
RenderCoordinates ==
    /\ cResult = Nil
    /\ cResult' = [condition |-> GenerateCoordinateCondition(cInput.cells)]
    /\ UNCHANGED <<cInput, grid, writes, analysis, generated, dInput, dResult,
                   vInput, vResult, pInput, pResult,
                   fInput, fResult, gCall, gSaved, canvas, storage,
                   sSaved>>

NextCondition == RenderCoordinates

ConditionSpec == InitCondition /\ [][NextCondition]_vars

-----------------------------------------------------------------------------
(* validate called on a grid and a candidate output text *)

\* the grids of at most MaxTextCells cells over the symbol #
TextGrids ==
    UNION {LoadedGrids(d[1], d[2], {"#"}) :
              d \in {e \in (1..MaxTextCells) \X (1..MaxTextCells) :
                        e[1] * e[2] <= MaxTextCells}}

\* the strings of white space of length n
RECURSIVE WhiteSpaceStrings(_)
WhiteSpaceStrings(n) ==
    IF n = 0 THEN {<<>>}
    ELSE {Append(t, ch) : t \in WhiteSpaceStrings(n - 1), ch \in WhiteSpace}

\* candidate texts: nothing or the rendering of some grid, then at most
\* MaxSuffix characters of white space, then nothing or one more symbol
Candidates ==
    {body \o space \o last :
        body \in {<<>>} \cup {GridToString(g) : g \in TextGrids},
        space \in UNION {WhiteSpaceStrings(n) : n \in 0..MaxSuffix},
        last \in {<<>>, <<"#">>}}

InitValidate ==
    /\ \E g \in TextGrids, programOutput \in Candidates :
          vInput = [grid |-> g, programOutput |-> programOutput]
    /\ vResult = Nil
    /\ IdleAnalysis
    /\ IdleDiscover
    /\ IdleParameterize
    /\ IdleCondition
    /\ IdleFormat
    /\ IdleGrid
    /\ IdleCanvas
    /\ IdleStorage

\* OutputValidator.validate(grid, programOutput)
ValidateOutput ==
    /\ vResult = Nil
    /\ vResult' = Validate(vInput.grid, vInput.programOutput)
    /\ UNCHANGED <<vInput, grid, writes, analysis, generated, dInput, dResult,
                   pInput, pResult, cInput, cResult,
                   fInput, fResult, gCall, gSaved, canvas, storage,
                   sSaved>>

NextValidate == ValidateOutput

ValidateSpec == InitValidate /\ [][NextValidate]_vars

-----------------------------------------------------------------------------
(* FormatSpec: formatDiffReport applied to results of validate *)

\* rows and columns of the grids and of the texts that are compared
MaxReportRows == 2
MaxReportCols == 6

\* rows lines of cols copies of char
Block2Text(rows, cols, char) ==
    JoinLines([r \in 1..rows |-> [c \in 1..cols |-> char]], <<"\n">>)

InitFormat ==
    /\ \E rows \in 1..MaxReportRows, cols \in 1..MaxReportCols,
          outRows \in 1..MaxReportRows, outCols \in 0..MaxReportCols,
          char \in Chars :
          fInput = Validate(LoadedGrid(rows, cols,
                               [r \in 0..(rows - 1) |->
                                   [c \in 0..(cols - 1) |-> "#"]]),
                            Block2Text(outRows, outCols, char))
    /\ fResult = Nil
    /\ IdleAnalysis
    /\ IdleDiscover
    /\ IdleValidate
    /\ IdleParameterize
    /\ IdleCondition
    /\ IdleGrid
    /\ IdleCanvas
    /\ IdleStorage

\* OutputValidator.formatDiffReport(result)
FormatReport ==
    /\ fResult = Nil
    /\ fResult' = [text |-> FormatDiffReport(fInput)]
    /\ UNCHANGED <<fInput, grid, writes, analysis, generated, dInput, dResult,
                   vInput, vResult, pInput, pResult, cInput, cResult,
                   gCall, gSaved, canvas, storage,
                   sSaved>>

NextFormat == FormatReport

FormatSpec == InitFormat /\ [][NextFormat]_vars

-----------------------------------------------------------------------------
(* FrameManager and CanvasManager.  A Grid they hold carries, besides its  *)
(* fields, the field id: which `new Grid` made the object.  The clock reads *)
(* the number of the handler that runs.                                     *)

\* the tools the pointer handlers are run with
Tools == {"draw", "erase", "line", "rectangle"}

\* the number of entries saveUndoState keeps in the undo stack
UndoLimit == 50

Allocate(g, id) ==
    [rows |-> g.rows, cols |-> g.cols, cells |-> g.cells, id |-> id]

\* a new Grid(rows, cols), then setCell(r, c, cell.char, cell.strokeId) for
\* every cell of old with r < min(rows, old.rows), c < min(cols, old.cols)
\* that holds a symbol
CopyInto(old, rows, cols, now) ==
    [rows |-> rows, cols |-> cols,
     cells |-> [r \in 0..(rows - 1) |-> [c \in 0..(cols - 1) |->
                  IF /\ r < old.rows
                     /\ c < old.cols
                     /\ old.cells[r][c].char # Null
                     /\ old.cells[r][c].strokeId >= EmptyCell.strokeId
                  THEN [char |-> old.cells[r][c].char,
                        strokeId |-> old.cells[r][c].strokeId,
                        timestamp |-> now]
                  ELSE EmptyCell]]]

NewFrameManager(rows, cols, id) ==
    [frames |-> <<Allocate(NewGrid(rows, cols), id)>>,
     currentFrameIndex |-> 0, rows |-> rows, cols |-> cols]

GetCurrentGrid(fm) == fm.frames[fm.currentFrameIndex + 1]

\* the place in frames of the grid getFrame(index) returns
GetFrameSlot(fm, index) ==
    IF index < 0 \/ index >= Len(fm.frames) THEN 1 ELSE index + 1

GetFrame(fm, index) == fm.frames[GetFrameSlot(fm, index)]

GotoFrame(fm, index) ==
    IF index >= 0 /\ index < Len(fm.frames)
    THEN [fm EXCEPT !.currentFrameIndex = index]
    ELSE fm

NextFrame(fm) ==
    IF fm.currentFrameIndex < Len(fm.frames) - 1
    THEN [fm EXCEPT !.currentFrameIndex = @ + 1]
    ELSE fm

PrevFrame(fm) ==
    IF fm.currentFrameIndex > 0
    THEN [fm EXCEPT !.currentFrameIndex = @ - 1]
    ELSE fm

AddFrame(fm, copyPrevious, now, id) ==
    LET newGrid == IF copyPrevious /\ Len(fm.frames) > 0
                   THEN CopyInto(fm.frames[Len(fm.frames)], fm.rows, fm.cols,
                                 now)
                   ELSE NewGrid(fm.rows, fm.cols)
    IN  [fm EXCEPT !.frames = Append(@, Allocate(newGrid, id)),
                   !.currentFrameIndex = Len(fm.frames)]

\* frames.splice(index, 1)
Splice(frames, index) ==
    SubSeq(frames, 1, index) \o SubSeq(frames, index + 2, Len(frames))

DeleteCurrentFrame(fm) ==
    IF Len(fm.frames) <= 1
    THEN [fm EXCEPT !.frames[1] = ClearGrid(@)]
    ELSE LET frames == Splice(fm.frames, fm.currentFrameIndex)
         IN  [fm EXCEPT !.frames = frames,
                        !.currentFrameIndex =
                            IF @ >= Len(frames) THEN Len(frames) - 1 ELSE @]

\* FrameManager.resize(rows, cols)
ResizeFrames(fm, rows, cols, now, id) ==
    [fm EXCEPT !.rows = rows, !.cols = cols,
               !.frames = [i \in DOMAIN fm.frames |->
                              Allocate(CopyInto(fm.frames[i], rows, cols, now),
                                       id + i - 1)]]

\* for (const cell of frameData) grid.setCell(cell.r, cell.c, cell.char, 0)
RECURSIVE SetSavedCells(_, _, _)
SetSavedCells(g, frameData, now) ==
    IF frameData = <<>> THEN g
    ELSE SetSavedCells(SetCell(g, Head(frameData).r, Head(frameData).c,
                               Head(frameData).char, 0, now),
                       Tail(frameData), now)

\* loadFrames keeping the frame index it finds
LoadFramesKeepsIndex(fm, framesData, rows, cols, now, id) ==
    LET sized == [fm EXCEPT !.rows = rows, !.cols = cols, !.frames = <<>>]
        frames == [i \in DOMAIN framesData |->
                      Allocate(SetSavedCells(NewGrid(rows, cols),
                                             framesData[i], now), id + i - 1)]
    IN  IF frames = <<>> THEN AddFrame(sized, FALSE, now, id)
        ELSE [sized EXCEPT !.frames = frames]

LoadFrames(fm, framesData, rows, cols, now, id) ==
    LET sized == [fm EXCEPT !.rows = rows, !.cols = cols, !.frames = <<>>]
        frames == [i \in DOMAIN framesData |->
                      Allocate(SetSavedCells(NewGrid(rows, cols),
                                             framesData[i], now), id + i - 1)]
        loaded == IF frames = <<>> THEN AddFrame(sized, FALSE, now, id)
                  ELSE [sized EXCEPT !.frames = frames]
    IN  [loaded EXCEPT !.currentFrameIndex = 0]

NewCanvasManager(rows, cols) ==
    [frameManager |-> NewFrameManager(rows, cols, 0),
     backgroundGrid |-> Allocate(NewGrid(rows, cols), 1),
     allocated |-> 2,
     activeLayer |-> "foreground",
     currentTool |-> "draw",
     currentChar |-> "#",
     samplerChar |-> "#",
     strokeId |-> 0,
     isDrawing |-> FALSE,
     isFilled |-> TRUE,
     symmetryX |-> FALSE,
     symmetryY |-> FALSE,
     startCoord |-> Nil,
     previewCells |-> {},
     undoStack |-> <<>>,
     redoStack |-> <<>>,
     clock |-> 0]

GetGrid(cm) ==
    IF cm.activeLayer = "background" THEN cm.backgroundGrid
    ELSE GetCurrentGrid(cm.frameManager)

\* the canvas once the Grid that getGrid() returns has become g
SetGrid(cm, g) ==
    IF cm.activeLayer = "background" THEN [cm EXCEPT !.backgroundGrid = g]
    ELSE [cm EXCEPT
            !.frameManager.frames[cm.frameManager.currentFrameIndex + 1] = g]

\* Date.now() in the handler that runs
Now(cm) == cm.clock + 1

\* the handler has returned
Ticked(cm) == [cm EXCEPT !.clock = @ + 1]

SetActiveLayer(cm, layer) == [cm EXCEPT !.activeLayer = layer]

SetTool(cm, tool) == [cm EXCEPT !.currentTool = tool]

SetChar(cm, char) ==
    [cm EXCEPT !.currentChar = IF char = "" THEN "#" ELSE char]

\* saveUndoState leaving the redo stack as it is
SaveUndoStateKeepsRedo(cm) ==
    LET pushed == Append(cm.undoStack,
                         [layer |-> cm.activeLayer,
                          frameIdx |-> cm.frameManager.currentFrameIndex,
                          snapshot |-> Snapshot(GetGrid(cm)),
                          of |-> GetGrid(cm).id])
    IN  [cm EXCEPT !.undoStack = IF Len(pushed) > UndoLimit THEN Tail(pushed)
                                 ELSE pushed]

\* saveUndoState never discarding an entry
SaveUndoStateUnbounded(cm) ==
    [cm EXCEPT !.undoStack = Append(@, [layer |-> cm.activeLayer,
                                        frameIdx |->
                                            cm.frameManager.currentFrameIndex,
                                        snapshot |-> Snapshot(GetGrid(cm)),
                                        of |-> GetGrid(cm).id]),
               !.redoStack = <<>>]

\* the entry's field `of` names the Grid the snapshot was taken from; no
\* handler reads it
SaveUndoState(cm) ==
    LET pushed == Append(cm.undoStack,
                         [layer |-> cm.activeLayer,
                          frameIdx |-> cm.frameManager.currentFrameIndex,
                          snapshot |-> Snapshot(GetGrid(cm)),
                          of |-> GetGrid(cm).id])
    IN  [cm EXCEPT !.undoStack = IF Len(pushed) > UndoLimit THEN Tail(pushed)
                                 ELSE pushed,
                   !.redoStack = <<>>]

\* for (const p of points) grid.setCell(p.row, p.col, char, strokeId)
RECURSIVE SetCells(_, _, _, _, _)
SetCells(g, points, char, strokeId, now) ==
    IF points = <<>> THEN g
    ELSE SetCells(SetCell(g, Head(points).row, Head(points).col, char,
                          strokeId, now),
                  Tail(points), char, strokeId, now)

ApplyPointWithSymmetry(cm, coord, char) ==
    LET g == GetGrid(cm)
        points ==
            <<coord>>
              \o (IF cm.symmetryX
                  THEN <<[row |-> coord.row, col |-> g.cols - 1 - coord.col]>>
                  ELSE <<>>)
              \o (IF cm.symmetryY
                  THEN <<[row |-> g.rows - 1 - coord.row, col |-> coord.col]>>
                  ELSE <<>>)
              \o (IF cm.symmetryX /\ cm.symmetryY
                  THEN <<[row |-> g.rows - 1 - coord.row,
                          col |-> g.cols - 1 - coord.col]>>
                  ELSE <<>>)
    IN  SetGrid(cm, SetCells(g, points, char, cm.strokeId, Now(cm)))

\* startDrawing at the cell the pointer snaps to; the brush is solid, so the
\* sampler's first point carries the stroke's character
StartDrawing(cm, coord) ==
    LET saved == SaveUndoState([cm EXCEPT !.isDrawing = TRUE])
        started == [saved EXCEPT !.startCoord = coord]
        char == IF cm.currentTool = "erase" THEN Null ELSE cm.currentChar
        drawn == IF cm.currentTool \in {"draw", "erase"}
                 THEN ApplyPointWithSymmetry(
                          [started EXCEPT !.samplerChar = char], coord, char)
                 ELSE started
    IN  [drawn EXCEPT !.strokeId = @ + 1]

\* the loop of getLinePoints from (p.x, p.y) with error term p.err
RECURSIVE LineFrom(_, _, _)
LineFrom(p, x1, y1) ==
    {[row |-> p.y, col |-> p.x]} \cup
      IF p.x = x1 /\ p.y = y1 THEN {}
      ELSE LET e2 == 2 * p.err
               stepX == e2 > -p.dy
               err1 == IF stepX THEN p.err - p.dy ELSE p.err
               stepY == e2 < p.dx
           IN  LineFrom([p EXCEPT !.x = IF stepX THEN @ + p.sx ELSE @,
                                  !.y = IF stepY THEN @ + p.sy ELSE @,
                                  !.err = IF stepY THEN err1 + p.dx
                                          ELSE err1],
                        x1, y1)

GetLinePoints(x0, y0, x1, y1) ==
    LineFrom([x |-> x0, y |-> y0, dx |-> Abs(x1 - x0), dy |-> Abs(y1 - y0),
              sx |-> IF x0 < x1 THEN 1 ELSE -1,
              sy |-> IF y0 < y1 THEN 1 ELSE -1,
              err |-> Abs(x1 - x0) - Abs(y1 - y0)], x1, y1)

GetRectPoints(c0, r0, c1, r1, filled) ==
    LET minC == Min(c0, c1)
        maxC == Max(c0, c1)
        minR == Min(r0, r1)
        maxR == Max(r0, r1)
    IN  IF filled
        THEN {[row |-> r, col |-> c] : r \in minR..maxR, c \in minC..maxC}
        ELSE {[row |-> r, col |-> c] : r \in {minR, maxR}, c \in minC..maxC}
               \cup {[row |-> r, col |-> c] :
                        r \in (minR + 1)..(maxR - 1), c \in {minC, maxC}}

UpdateShapePreview(cm, endCoord) ==
    IF cm.startCoord = Nil THEN cm
    ELSE LET g == GetGrid(cm)
             c0 == cm.startCoord.col
             r0 == cm.startCoord.row
             points ==
                 CASE cm.currentTool = "line" ->
                          GetLinePoints(c0, r0, endCoord.col, endCoord.row)
                   [] cm.currentTool = "rectangle" ->
                          GetRectPoints(c0, r0, endCoord.col, endCoord.row,
                                        cm.isFilled)
                   [] OTHER -> {}
             symmetricPoints ==
                 points
                   \cup (IF cm.symmetryX
                         THEN {[row |-> p.row, col |-> g.cols - 1 - p.col] :
                                  p \in points}
                         ELSE {})
                   \cup (IF cm.symmetryY
                         THEN {[row |-> g.rows - 1 - p.row, col |-> p.col] :
                                  p \in points}
                         ELSE {})
                   \cup (IF cm.symmetryX /\ cm.symmetryY
                         THEN {[row |-> g.rows - 1 - p.row,
                                col |-> g.cols - 1 - p.col] : p \in points}
                         ELSE {})
         IN  [cm EXCEPT !.previewCells =
                 {p \in symmetricPoints : IsValidCoord(g, p.row, p.col)}]

\* continueDrawing at the cell the pointer snaps to; sampled tells whether
\* the sampler returns a sample for the point, which the distance from the
\* last sample and the clock decide
ContinueDrawing(cm, coord, sampled) ==
    IF ~cm.isDrawing \/ cm.startCoord = Nil THEN cm
    ELSE IF cm.currentTool \in {"draw", "erase"}
         THEN IF sampled
              THEN ApplyPointWithSymmetry(cm, coord, cm.samplerChar)
              ELSE cm
         ELSE UpdateShapePreview(cm, coord)

\* the preview cells are distinct, so the order of the setCell calls does
\* not show
ApplyPreviewToGrid(cm) ==
    LET g == GetGrid(cm)
    IN  SetGrid(cm, [g EXCEPT !.cells =
            [r \in 0..(g.rows - 1) |-> [c \in 0..(g.cols - 1) |->
                IF /\ [row |-> r, col |-> c] \in cm.previewCells
                   /\ SetCellApplies(g, r, c, cm.currentChar, cm.strokeId)
                THEN [char |-> cm.currentChar, strokeId |-> cm.strokeId,
                      timestamp |-> Now(cm)]
                ELSE g.cells[r][c]]]])

EndDrawing(cm) ==
    IF ~cm.isDrawing THEN cm
    ELSE LET applied == IF cm.currentTool \notin {"draw", "erase"}
                        THEN ApplyPreviewToGrid(cm)
                        ELSE cm
         IN  [applied EXCEPT !.isDrawing = FALSE, !.previewCells = {},
                             !.startCoord = Nil]

\* a flip that copies the mirrored cells back without clearing the grid
FlipGridKeepsOld(g, horizontal, now) ==
    [g EXCEPT !.cells =
        [r \in 0..(g.rows - 1) |-> [c \in 0..(g.cols - 1) |->
            LET cell == IF horizontal
                        THEN g.cells[r][g.cols - 1 - c]
                        ELSE g.cells[g.rows - 1 - r][c]
            IN  IF cell.char # Null /\ cell.strokeId >= g.cells[r][c].strokeId
                THEN [char |-> cell.char, strokeId |-> cell.strokeId,
                      timestamp |-> now]
                ELSE g.cells[r][c]]]]

\* the two copy loops of flipHorizontal (horizontal) and of flipVertical
FlipGrid(g, horizontal, now) ==
    LET mirrored ==
            [g EXCEPT !.cells =
                [r \in 0..(g.rows - 1) |-> [c \in 0..(g.cols - 1) |->
                    LET cell == IF horizontal
                                THEN g.cells[r][g.cols - 1 - c]
                                ELSE g.cells[g.rows - 1 - r][c]
                    IN  IF cell.char # Null
                           /\ cell.strokeId >= EmptyCell.strokeId
                        THEN [char |-> cell.char, strokeId |-> cell.strokeId,
                              timestamp |-> now]
                        ELSE EmptyCell]]]
    IN  [g EXCEPT !.cells = CopyInto(mirrored, g.rows, g.cols, now).cells]

FlipHorizontal(cm) ==
    LET saved == SaveUndoState(cm)
    IN  SetGrid(saved, FlipGrid(GetGrid(saved), TRUE, Now(cm)))

FlipVertical(cm) ==
    LET saved == SaveUndoState(cm)
    IN  SetGrid(saved, FlipGrid(GetGrid(saved), FALSE, Now(cm)))

Clear(cm) ==
    LET saved == SaveUndoState(cm)
    IN  SetGrid(saved, ClearGrid(GetGrid(saved)))

Resize(cm, rows, cols) ==
    [cm EXCEPT
        !.frameManager = ResizeFrames(@, rows, cols, Now(cm), cm.allocated),
        !.backgroundGrid =
            Allocate(CopyInto(@, rows, cols, Now(cm)),
                     cm.allocated + Len(cm.frameManager.frames)),
        !.allocated = @ + Len(cm.frameManager.frames) + 1]

\* the Grid an undo or redo entry is applied to
TargetGrid(cm, state) ==
    IF state.layer = "background" THEN cm.backgroundGrid
    ELSE GetFrame(cm.frameManager, state.frameIdx)

\* the canvas once TargetGrid(cm, state) has become g
SetTargetGrid(cm, state, g) ==
    IF state.layer = "background" THEN [cm EXCEPT !.backgroundGrid = g]
    ELSE [cm EXCEPT !.frameManager.frames[
                        GetFrameSlot(cm.frameManager, state.frameIdx)] = g]

\* setActiveLayer(state.layer) and gotoFrame(state.frameIdx) where they differ
SwitchTo(cm, state) ==
    [cm EXCEPT !.activeLayer = state.layer,
               !.frameManager = IF state.layer = "foreground"
                                THEN GotoFrame(@, state.frameIdx)
                                ELSE @]

\* undo pushing the snapshot it pops onto the redo stack
UndoPushesPopped(cm) ==
    IF cm.undoStack = <<>> THEN cm
    ELSE LET state == cm.undoStack[Len(cm.undoStack)]
             target == TargetGrid(cm, state)
             popped == [cm EXCEPT
                          !.undoStack = SubSeq(@, 1, Len(@) - 1),
                          !.redoStack = Append(@, state)]
         IN  SetTargetGrid(SwitchTo(popped, state), state,
                           Restore(target, state.snapshot))

Undo(cm) ==
    IF cm.undoStack = <<>> THEN cm
    ELSE LET state == cm.undoStack[Len(cm.undoStack)]
             target == TargetGrid(cm, state)
             popped == [cm EXCEPT
                          !.undoStack = SubSeq(@, 1, Len(@) - 1),
                          !.redoStack =
                              Append(@, [layer |-> state.layer,
                                         frameIdx |-> state.frameIdx,
                                         snapshot |-> Snapshot(target),
                                         of |-> target.id])]
         IN  SetTargetGrid(SwitchTo(popped, state), state,
                           Restore(target, state.snapshot))

Redo(cm) ==
    IF cm.redoStack = <<>> THEN cm
    ELSE LET state == cm.redoStack[Len(cm.redoStack)]
             target == TargetGrid(cm, state)
             popped == [cm EXCEPT
                          !.redoStack = SubSeq(@, 1, Len(@) - 1),
                          !.undoStack =
                              Append(@, [layer |-> state.layer,
                                         frameIdx |-> state.frameIdx,
                                         snapshot |-> Snapshot(target),
                                         of |-> target.id])]
         IN  SetTargetGrid(SwitchTo(popped, state), state,
                           Restore(target, state.snapshot))

\* a pointer-down at from, a move to the cell to and a pointer-up: a stroke
\* with the tools draw and erase, a shape with the others
Stroke(cm, from, to) ==
    Ticked(EndDrawing(Ticked(ContinueDrawing(Ticked(StartDrawing(cm, from)),
                                             to, TRUE))))

\* k more edits, a stroke at cell (0, 0) and a clear in turn (the test of
\* the clock has cm evaluated before the next edit is applied to it)
RECURSIVE Edits(_, _)
Edits(cm, k) ==
    IF k = 0 \/ cm.clock < 0 THEN cm
    ELSE Edits(IF k % 2 = 1
               THEN Stroke(cm, [row |-> 0, col |-> 0], [row |-> 0, col |-> 0])
               ELSE Ticked(Clear(cm)), k - 1)

-----------------------------------------------------------------------------
(* StorageManager.  The localStorage item is kept parsed: Nil while there is *)
(* no item, else [saves |-> the array that JSON.stringify wrote].  The saved *)
(* values are arrays and objects of strings and numbers, which              *)
(* JSON.parse(JSON.stringify(v)) returns equal to v.                         *)

\* the array `data` savePattern builds for one grid, from the k-th cell of
\* the row-major scan on
RECURSIVE SavedFrameFrom(_, _)
SavedFrameFrom(g, k) ==
    IF k >= g.rows * g.cols THEN <<>>
    ELSE LET co == CoordAt(g, k)
             cell == GetCell(g, co.row, co.col)
         IN  (IF cell.char # Null /\ cell.char # ""
              THEN <<[r |-> co.row, c |-> co.col, char |-> cell.char]>>
              ELSE <<>>) \o SavedFrameFrom(g, k + 1)

GetSaves(item) == IF item = Nil THEN <<>> ELSE item.saves

\* saves.findIndex(s => s.name === name), counted from 1; 0 if there is none
FindIndex(saves, name) ==
    IF \E i \in DOMAIN saves : saves[i].name = name
    THEN CHOOSE i \in DOMAIN saves :
             /\ saves[i].name = name
             /\ \A j \in 1..(i - 1) : saves[j].name # name
    ELSE 0

\* savePattern pushing the pattern without removing the one of that name
SavePatternAppends(item, name, grids, now) ==
    [saves |-> Append(GetSaves(item),
                      [id |-> ToString(now), name |-> name, timestamp |-> now,
                       rows |-> grids[1].rows, cols |-> grids[1].cols,
                       frames |-> [i \in DOMAIN grids |->
                                     SavedFrameFrom(grids[i], 0)]])]

\* the item savePattern(name, grids) writes
SavePattern(item, name, grids, now) ==
    LET saves == GetSaves(item)
        framesData == [i \in DOMAIN grids |-> SavedFrameFrom(grids[i], 0)]
        existingIdx == FindIndex(saves, name)
        others == IF existingIdx >= 1 THEN Splice(saves, existingIdx - 1)
                  ELSE saves
        pattern == [id |-> ToString(now), name |-> name, timestamp |-> now,
                    rows |-> grids[1].rows, cols |-> grids[1].cols,
                    frames |-> framesData]
    IN  [saves |-> Append(others, pattern)]

ListPatterns(item) ==
    [i \in DOMAIN GetSaves(item) |-> GetSaves(item)[i].name]

LoadPattern(item, name) ==
    LET saves == GetSaves(item)
    IN  IF FindIndex(saves, name) = 0 THEN Nil
        ELSE saves[FindIndex(saves, name)]

\* the item deletePattern(name) writes
DeletePattern(item, name) ==
    [saves |-> SelectSeq(GetSaves(item), LAMBDA s : s.name # name)]

-----------------------------------------------------------------------------
(* CanvasSpec: the handlers of the editor run on a new CanvasManager *)

\* the cells of a grid of the canvas and the number of handlers run
MaxCanvasCells == 2
MaxCanvasOps == 4

\* the dimensions the canvas is made with and resized to
CanvasDims ==
    {d \in (1..MaxCanvasCells) \X (1..MaxCanvasCells) :
        d[1] * d[2] <= MaxCanvasCells}

\* the cell matrix of g is g.rows x g.cols
ShapeOk(g) ==
    /\ DOMAIN g.cells = 0..(g.rows - 1)
    /\ \A r \in DOMAIN g.cells : DOMAIN g.cells[r] = 0..(g.cols - 1)

\* the Grids reachable from the CanvasManager
CanvasGrids(cm) ==
    {cm.frameManager.frames[i] : i \in DOMAIN cm.frameManager.frames}
      \cup {cm.backgroundGrid}

\* the cells the snapper maps a pointer position to
SnapCoords(cm) ==
    [row : 0..(cm.frameManager.rows - 1), col : 0..(cm.frameManager.cols - 1)]

InitCanvas ==
    /\ \E d \in CanvasDims : canvas = NewCanvasManager(d[1], d[2])
    /\ IdleAnalysis
    /\ IdleDiscover
    /\ IdleValidate
    /\ IdleParameterize
    /\ IdleCondition
    /\ IdleFormat
    /\ IdleGrid
    /\ IdleStorage

\* a handler runs while every cell matrix has the shape render() and setCell
\* rely on; writes counts the handlers run, and nothing else but the canvas
\* changes
CanvasFrame ==
    /\ writes < MaxCanvasOps
    /\ writes' = writes + 1
    /\ \A g \in CanvasGrids(canvas) : ShapeOk(g)
    /\ UNCHANGED <<grid, analysis, generated, dInput, dResult, vInput,
                   vResult, pInput, pResult, cInput, cResult, fInput, fResult,
                   gCall, gSaved, storage, sSaved>>

\* the canvas a handler leaves, the clock advanced
Handled(cm) == canvas' = Ticked(cm)

\* mousedown, touchstart
OnPointerDown ==
    /\ CanvasFrame
    /\ \E coord \in SnapCoords(canvas) :
          Handled(StartDrawing(canvas, coord))

\* mousemove while drawing, touchmove
OnPointerMove ==
    /\ CanvasFrame
    /\ \E coord \in SnapCoords(canvas), sampled \in BOOLEAN :
          Handled(ContinueDrawing(canvas, coord, sampled))

\* mouseup, mouseleave, touchend
OnPointerUp ==
    /\ CanvasFrame
    /\ Handled(EndDrawing(canvas))

OnSetTool ==
    /\ CanvasFrame
    /\ \E tool \in Tools : Handled(SetTool(canvas, tool))

OnSetChar ==
    /\ CanvasFrame
    /\ \E char \in Chars : Handled(SetChar(canvas, char))

OnSetActiveLayer ==
    /\ CanvasFrame
    /\ \E layer \in {"background", "foreground"} :
          Handled(SetActiveLayer(canvas, layer))

OnFlipHorizontal ==
    /\ CanvasFrame
    /\ Handled(FlipHorizontal(canvas))

OnFlipVertical ==
    /\ CanvasFrame
    /\ Handled(FlipVertical(canvas))

OnClear ==
    /\ CanvasFrame
    /\ Handled(Clear(canvas))

OnResize ==
    /\ CanvasFrame
    /\ \E d \in CanvasDims : Handled(Resize(canvas, d[1], d[2]))

\* the add-frame and copy-frame buttons
OnAddFrame ==
    /\ CanvasFrame
    /\ \E copyPrevious \in BOOLEAN :
          Handled([canvas EXCEPT
                      !.frameManager = AddFrame(@, copyPrevious, Now(canvas),
                                                canvas.allocated),
                      !.allocated = @ + 1])

OnDeleteCurrentFrame ==
    /\ CanvasFrame
    /\ Handled([canvas EXCEPT !.frameManager = DeleteCurrentFrame(@)])

OnGotoFrame ==
    /\ CanvasFrame
    /\ \E index \in 0..Len(canvas.frameManager.frames) :
          Handled([canvas EXCEPT !.frameManager = GotoFrame(@, index)])

OnNextFrame ==
    /\ CanvasFrame
    /\ Handled([canvas EXCEPT !.frameManager = NextFrame(@)])

OnPrevFrame ==
    /\ CanvasFrame
    /\ Handled([canvas EXCEPT !.frameManager = PrevFrame(@)])

OnUndo ==
    /\ CanvasFrame
    /\ Handled(Undo(canvas))

OnRedo ==
    /\ CanvasFrame
    /\ Handled(Redo(canvas))

NextCanvas ==
    \/ OnPointerDown
    \/ OnPointerMove
    \/ OnPointerUp
    \/ OnSetTool
    \/ OnSetChar
    \/ OnSetActiveLayer
    \/ OnFlipHorizontal
    \/ OnFlipVertical
    \/ OnClear
    \/ OnResize
    \/ OnAddFrame
    \/ OnDeleteCurrentFrame
    \/ OnGotoFrame
    \/ OnNextFrame
    \/ OnPrevFrame
    \/ OnUndo
    \/ OnRedo

CanvasSpec == InitCanvas /\ [][NextCanvas]_vars

-----------------------------------------------------------------------------
(* HistorySpec: the handlers of the editor run on a CanvasManager of one    *)
(* cell whose undo stack is full or one entry short of full                 *)

\* the edits made before the handlers run
HistoryLengths == {UndoLimit - 1, UndoLimit}

InitHistory ==
    /\ \E k \in HistoryLengths :
          canvas = Edits(NewCanvasManager(1, 1), k)
    /\ IdleAnalysis
    /\ IdleDiscover
    /\ IdleValidate
    /\ IdleParameterize
    /\ IdleCondition
    /\ IdleFormat
    /\ IdleGrid
    /\ IdleStorage

HistorySpec == InitHistory /\ [][NextCanvas]_vars

-----------------------------------------------------------------------------
(* StorageSpec: the save and load buttons, deletePattern and loadFrames run *)
(* between strokes and the frame buttons on a new CanvasManager             *)

\* the names patterns are saved under
Names == {"a", "b"}

InitStorage ==
    /\ \E d \in CanvasDims : canvas = NewCanvasManager(d[1], d[2])
    /\ storage = Nil
    /\ sSaved = [name \in Names |-> Nil]
    /\ IdleAnalysis
    /\ IdleDiscover
    /\ IdleValidate
    /\ IdleParameterize
    /\ IdleCondition
    /\ IdleFormat
    /\ IdleGrid

\* a handler that reads or writes the store runs; writes counts it
StorageFrame ==
    /\ writes < MaxCanvasOps
    /\ writes' = writes + 1
    /\ \A g \in CanvasGrids(canvas) : ShapeOk(g)
    /\ UNCHANGED <<grid, analysis, generated, dInput, dResult, vInput,
                   vResult, pInput, pResult, cInput, cResult, fInput, fResult,
                   gCall, gSaved>>

\* the save button, a name entered
OnSave ==
    /\ StorageFrame
    /\ \E name \in Names :
          /\ storage' = SavePattern(storage, name, canvas.frameManager.frames,
                                    Now(canvas))
          /\ sSaved' = [sSaved EXCEPT
                           ![name] = [grids |-> canvas.frameManager.frames]]
    /\ Handled(canvas)

\* the canvas the load button leaves once loadPattern has returned pattern
Load(cm, pattern) ==
    IF pattern = Nil THEN cm
    ELSE LET resized == Resize(cm, pattern.rows, pattern.cols)
         IN  [resized EXCEPT
                 !.frameManager =
                     LoadFrames(@, pattern.frames, pattern.rows, pattern.cols,
                                Now(cm), resized.allocated),
                 !.allocated = @ + Max(Len(pattern.frames), 1)]

\* the load button, a name entered; with no pattern stored it only alerts
OnLoad ==
    /\ StorageFrame
    /\ \E name \in Names :
          Handled(IF ListPatterns(storage) = <<>> THEN canvas
                  ELSE Load(canvas, LoadPattern(storage, name)))
    /\ UNCHANGED <<storage, sSaved>>

CallDeletePattern ==
    /\ StorageFrame
    /\ \E name \in Names :
          /\ storage' = DeletePattern(storage, name)
          /\ sSaved' = [sSaved EXCEPT ![name] = Nil]
    /\ Handled(canvas)

\* frameManager.loadFrames called with no frames or with the frames of a
\* stored pattern, and with any dimensions
CallLoadFrames ==
    /\ StorageFrame
    /\ \E d \in CanvasDims,
          framesData \in {<<>>} \cup {GetSaves(storage)[i].frames :
                                        i \in DOMAIN GetSaves(storage)} :
          Handled([canvas EXCEPT
                      !.frameManager =
                          LoadFrames(@, framesData, d[1], d[2], Now(canvas),
                                     canvas.allocated),
                      !.allocated = @ + Max(Len(framesData), 1)])
    /\ UNCHANGED <<storage, sSaved>>

NextStorage ==
    \/ OnPointerDown
    \/ OnSetChar
    \/ OnResize
    \/ OnAddFrame
    \/ OnDeleteCurrentFrame
    \/ OnGotoFrame
    \/ OnNextFrame
    \/ OnPrevFrame
    \/ OnSave
    \/ OnLoad
    \/ CallDeletePattern
    \/ CallLoadFrames

StorageSpec == InitStorage /\ [][NextStorage]_vars

-----------------------------------------------------------------------------
(* Properties of the analysis of a grid (AnalysisSpec, EditSpec) *)

Analyzed == analysis # Nil /\ analysis # Fault

\* the symbols present in the grid
SymbolsOf(g) ==
    {g.cells[r][c].char : r \in 0..(g.rows - 1), c \in 0..(g.cols - 1)}
      \ {Null}

\* the cells of the grid that hold symbol ch
CellsHolding(g, ch) ==
    {co \in [row : 0..(g.rows - 1), col : 0..(g.cols - 1)] :
        g.cells[co.row][co.col].char = ch}

\* the row-major index of the first cell that holds ch
FirstOccurrence(g, ch) ==
    CHOOSE k \in 0..(g.rows * g.cols - 1) :
        /\ g.cells[CoordAt(g, k).row][CoordAt(g, k).col].char = ch
        /\ \A j \in 0..(k - 1) :
               g.cells[CoordAt(g, j).row][CoordAt(g, j).col].char # ch

\* C1: round trip - evaluating the predicate chain returned by analyze()
\* cell by cell over [0,H) x [0,W), first matching predicate first, blank
\* when none matches, reproduces the grid's canonical rendering toString().
RoundTrip ==
    Analyzed =>
        EvaluateChain(analysis.predicates, GetCellsByChar(grid),
                      grid.rows, grid.cols) = GridToString(grid)

\* C3: exact match in both directions - a predicate of a kind other than
\* coordinate_set selects, over [0,H) x [0,W), exactly the coordinate set of
\* its symbol: no cell of the set left out, no cell outside it included.
ExactMatch ==
    Analyzed =>
        \A i \in DOMAIN analysis.predicates :
            analysis.predicates[i].type # "coordinate_set" =>
                SelectedCells(analysis.predicates[i].expression,
                              grid.rows, grid.cols)
                  = CellsHolding(grid, analysis.predicates[i].char)

\* the grid with the same characters and no write provenance
Stripped(g) ==
    [g EXCEPT !.cells =
        [r \in 0..(g.rows - 1) |-> [c \in 0..(g.cols - 1) |->
            [char |-> g.cells[r][c].char, strokeId |-> -1, timestamp |-> 0]]]]

\* C8: determinism - the predicates, warnings, scalability flags and program
\* text obtained from a grid are those obtained from any grid of the same
\* dimensions and cell characters, whatever stroke ids and timestamps its
\* cells store: they equal the run on the grid stripped of its provenance.
Determinism ==
    Analyzed =>
        /\ analysis = Analyze(Stripped(grid))
        /\ generated = Generate(Analyze(Stripped(grid)).predicates,
                                grid.rows, grid.cols,
                                GetCellsByChar(Stripped(grid)))

\* a run on a grid of two symbols, one of them rewritten by a later stroke
\* after an earlier run, so that its provenance differs from the other's
DeterminismWitness ==
    /\ Analyzed
    /\ writes > 0
    /\ Len(analysis.predicates) = 2
    /\ \E r \in 0..(grid.rows - 1), c \in 0..(grid.cols - 1) :
           grid.cells[r][c].strokeId = MaxStroke
    /\ \E r \in 0..(grid.rows - 1), c \in 0..(grid.cols - 1) :
           grid.cells[r][c].strokeId = 0

\* C9: analyze() returns exactly one predicate per distinct symbol present
\* in the grid, none for an absent symbol, ordered by the row-major position
\* of each symbol's first occurrence.
OnePredicatePerSymbol ==
    Analyzed =>
        LET preds == analysis.predicates
        IN  /\ Len(preds) = Cardinality(SymbolsOf(grid))
            /\ \A i \in DOMAIN preds : preds[i].char \in SymbolsOf(grid)
            /\ \A i, j \in DOMAIN preds :
                   i < j => FirstOccurrence(grid, preds[i].char)
                              < FirstOccurrence(grid, preds[j].char)

\* two symbols on a grid whose first cell is empty: @ is met first in the
\* scan and listed first, # second
OnePredicatePerSymbolWitness ==
    /\ Analyzed
    /\ Len(analysis.predicates) = 2
    /\ analysis.predicates[1].char = "@"
    /\ analysis.predicates[2].char = "#"
    /\ grid.cells[0][0].char = Null

\* one symbol occupies every cell of the grid
FullyOccupied(g) ==
    /\ Cardinality(SymbolsOf(g)) = 1
    /\ \A r \in 0..(g.rows - 1), c \in 0..(g.cols - 1) :
           g.cells[r][c].char # Null

Synthesized == Analyzed /\ generated # Nil /\ generated # Fault

\* C15: GeneratedCode.isScalable is the conjunction of isScalable over the
\* predicates passed to the synthesizer: true iff every predicate is
\* scalable, hence false for a program with a non-scalable literal line or
\* literal rectangle as well as for one with a coordinate_set.
ScalableIsConjunction ==
    Synthesized =>
        (generated.isScalable
           <=> \A i \in DOMAIN analysis.predicates :
                   analysis.predicates[i].isScalable)

\* C16: GeneratedCode.isScalable is false iff some predicate has kind
\* coordinate_set; exactly then generate() attaches one warning, that the
\* program will not scale with H/W changes; otherwise warnings is empty.
ScalableIffNoCoordinateSet ==
    Synthesized =>
        LET fellBack == \E i \in DOMAIN analysis.predicates :
                            analysis.predicates[i].type = "coordinate_set"
        IN  /\ ~generated.isScalable <=> fellBack
            /\ generated.warnings =
                   IF fellBack
                   THEN <<FixedCoordinatesWarning>>
                   ELSE <<>>

\* a program of two predicates, a non-scalable literal line and a
\* coordinate_set: one warning; and the line alone would not clear the flag
ScalableIffNoCoordinateSetWitness ==
    /\ Synthesized
    /\ Len(analysis.predicates) = 2
    /\ analysis.predicates[1].type = "horizontal_line"
    /\ ~analysis.predicates[1].isScalable
    /\ analysis.predicates[2].type = "coordinate_set"
    /\ ~generated.isScalable
    /\ Len(generated.warnings) = 1

\* the per-symbol warnings of the non-scalable predicates from index i on
RECURSIVE PerSymbolWarnings(_, _, _)
PerSymbolWarnings(preds, byChar, i) ==
    IF i > Len(preds) THEN <<>>
    ELSE (IF preds[i].isScalable THEN <<>>
          ELSE << <<"Character '", preds[i].char,
                    "': Pattern could not be parameterized. ",
                    "Using coordinate set (",
                    ToString(Len(byChar[i].value)), " points).">> >>)
           \o PerSymbolWarnings(preds, byChar, i + 1)

\* C17: analyze() emits one warning per non-scalable predicate, in
\* predicate order, and in addition exactly one generic overall warning,
\* present iff at least one predicate fell back to kind coordinate_set;
\* when every predicate is scalable the warnings list is empty and
\* isFullyParametric is true.
GenericWarningIffFallback ==
    Analyzed =>
        LET preds == analysis.predicates
            perSymbol == PerSymbolWarnings(preds, GetCellsByChar(grid), 1)
            fellBack == \E i \in DOMAIN preds :
                            preds[i].type = "coordinate_set"
        IN  /\ analysis.warnings =
                   perSymbol \o (IF fellBack THEN <<CoordinateSetsWarning>>
                                             ELSE <<>>)
            /\ (\A i \in DOMAIN preds : preds[i].isScalable)
                  => analysis.warnings = <<>> /\ analysis.isFullyParametric

\* C18: synthesis preserves predicate order - for n >= 1 predicates the
\* emitted chain has exactly n guarded branches, branch i testing the
\* condition of predicate i and printing its symbol, followed by exactly
\* one trailing else that prints a blank; with zero predicates the loop
\* body prints a blank unconditionally; so at run time the first-listed
\* predicate whose condition holds decides the glyph.
SynthesisOrder ==
    Synthesized =>
        LET preds == analysis.predicates
            byChar == GetCellsByChar(grid)
            body == LoopBody(generated.code)
            chain == ParseBranches(body, 1)
        IN  IF Len(preds) = 0
            THEN body = <<"            cout << ' ';">>
            ELSE /\ Len(chain.branches) = Len(preds)
                 /\ \A i \in DOMAIN chain.branches :
                        /\ chain.branches[i].opener =
                               IF i = 1 THEN "            if ("
                                        ELSE "            } else if ("
                        /\ chain.branches[i].condition
                             = PredicateToCondition(preds[i], byChar)
                        /\ chain.branches[i].then
                             = <<"\n", "                cout << ">>
                        /\ chain.branches[i].prints
                             = <<"'", preds[i].char, "'">>
                 /\ SubSeq(body, chain.rest, Len(body))
                      = <<"            } else {", "\n",
                          "                cout << ' ';", "\n",
                          "            }">>
                 /\ \A r \in 0..(grid.rows - 1), c \in 0..(grid.cols - 1) :
                        BranchGlyph(chain.branches, r, c, grid.rows, grid.cols)
                          = ChainGlyph(preds, byChar, r, c,
                                       grid.rows, grid.cols)

\* a chain of two branches whose conditions both hold at cell (0,0) while
\* the cell holds the first-listed symbol: the first branch decides
SynthesisOrderWitness ==
    /\ Synthesized
    /\ Len(analysis.predicates) = 2
    /\ Len(ParseBranches(LoopBody(generated.code), 1).branches) = 2
    /\ \A i \in 1..2 :
           EvalCondition(PredicateToCondition(analysis.predicates[i],
                                              GetCellsByChar(grid)),
                         0, 0, grid.rows, grid.cols)
    /\ grid.cells[0][0].char = analysis.predicates[1].char

-----------------------------------------------------------------------------
(* Properties of discoverPredicate (DiscoverSpec) *)

PredicateTypes ==
    {"border", "diagonal", "anti_diagonal", "horizontal_line",
     "vertical_line", "filled_rect", "checkerboard", "coordinate_set"}

\* C7: totality of discovery - for every H, W >= 1 and every coordinate set
\* within bounds (the empty set, a single cell and all cells included)
\* discoverPredicate raises no fault and returns a Predicate, of kind
\* coordinate_set (confidence 0, not scalable) exactly when none of the eight
\* testers matches.
DiscoveryTotal ==
    dResult # Nil =>
        LET d == Detectors(dInput.cells, dInput.char, dInput.H, dInput.W)
        IN  /\ dResult # Fault
            /\ dResult.type \in PredicateTypes
            /\ dResult.char = dInput.char
            /\ dResult.type = "coordinate_set"
                 <=> \A i \in DOMAIN d : d[i] = Nil
            /\ dResult.type = "coordinate_set"
                 => dResult.confidence = 0 /\ ~dResult.isScalable

\* discovery has run on the empty coordinate set and fell back
DiscoveryTotalWitness ==
    /\ dResult # Nil
    /\ dInput.cells = <<>>
    /\ dResult.type = "coordinate_set"

\* C13: priority order is the only disambiguator - discoverPredicate
\* returns the result of the first tester that matches in the order Fill,
\* Border, Diagonal, Anti-diagonal, Horizontal line, Vertical line, Filled
\* rectangle, Checkerboard; the differing result of a later tester is never
\* returned when an earlier tester matches the same set.
PriorityOrder ==
    dResult # Nil =>
        LET t == << TryFill(dInput.cells, dInput.char, dInput.H, dInput.W),
                    TryBorder(dInput.cells, dInput.char, dInput.H, dInput.W),
                    TryDiagonal(dInput.cells, dInput.char, dInput.H, dInput.W),
                    TryAntiDiagonal(dInput.cells, dInput.char,
                                    dInput.H, dInput.W),
                    TryHorizontalLine(dInput.cells, dInput.char,
                                      dInput.H, dInput.W),
                    TryVerticalLine(dInput.cells, dInput.char,
                                    dInput.H, dInput.W),
                    TryFilledRectangle(dInput.cells, dInput.char,
                                       dInput.H, dInput.W),
                    TryCheckerboard(dInput.cells, dInput.char,
                                    dInput.H, dInput.W) >>
        IN  /\ \A i \in 1..8 :
                   (t[i] # Nil /\ \A j \in 1..(i - 1) : t[j] = Nil)
                       => dResult = t[i]
            /\ \A i \in 1..8 : \A j \in (i + 1)..8 :
                   (t[i] # Nil /\ t[j] # Nil /\ t[j] # t[i])
                       => dResult # t[j]

\* the single cell (0,0) of a grid one cell high or wide and longer than
\* that: Diagonal, Anti-diagonal and Filled rectangle all match, with three
\* different results, and Diagonal's is returned
PriorityOrderWitness ==
    /\ dResult # Nil
    /\ dInput.cells = <<[row |-> 0, col |-> 0]>>
    /\ TryFill(dInput.cells, dInput.char, dInput.H, dInput.W) = Nil
    /\ TryAntiDiagonal(dInput.cells, dInput.char, dInput.H, dInput.W) # Nil
    /\ TryFilledRectangle(dInput.cells, dInput.char, dInput.H, dInput.W) # Nil
    /\ dResult.type = "diagonal"

-----------------------------------------------------------------------------
(* Properties of validate (ValidateSpec) *)

Validated == vResult # Nil

\* what a correct program for grid g prints: the cols glyphs of each row,
\* each row followed by a newline (cout << endl)
CorrectOutput(g) ==
    JoinLines([i \in 1..g.rows |-> RowLine(g, i - 1) \o <<"\n">>], <<>>)

\* C2: validate(grid, t) returns valid = true when t is the output of a
\* correct program for the grid, the canonical rendering with a newline
\* after every row, whatever the contents of the grid's last row.
CorrectOutputIsValid ==
    (Validated /\ vInput.programOutput = CorrectOutput(vInput.grid))
        => vResult.valid

\* the text with one trailing newline removed when present
StripOneNewline(text) ==
    IF Len(text) > 0 /\ text[Len(text)] = "\n"
    THEN SubSeq(text, 1, Len(text) - 1)
    ELSE text

\* C4: validate strips exactly one trailing newline and normalizes nothing
\* else - the result is valid iff the candidate, one trailing newline removed
\* when present, equals the canonical rendering character for character;
\* trailing spaces, tabs or further newlines are not normalized away.
OnlyOneNewlineStripped ==
    Validated =>
        (vResult.valid
           <=> StripOneNewline(vInput.programOutput)
                 = GridToString(vInput.grid))

\* C5: valid = true iff differences is empty; a failure lists at least one
\* mismatched position.
ValidIffNoDifferences ==
    Validated => (vResult.valid <=> vResult.differences = <<>>)

\* the glyph of a text's lines at (r, c): a missing line is the empty
\* string, a missing character a blank
PaddedGlyph(lines, r, c) ==
    IF r < Len(lines) /\ c < Len(lines[r + 1]) THEN lines[r + 1][c + 1]
    ELSE " "

LineLength(lines, r) == IF r < Len(lines) THEN Len(lines[r + 1]) ELSE 0

\* the positions of the padded comparison at which the two glyphs differ
DifferingPositions(expLines, actLines) ==
    {p \in [row : 0..(Max(Len(expLines), Len(actLines)) - 1),
            col : 0..(SetMax({Len((expLines \o actLines)[i]) :
                                 i \in DOMAIN (expLines \o actLines)}) - 1)] :
        /\ p.col < Max(LineLength(expLines, p.row), LineLength(actLines, p.row))
        /\ PaddedGlyph(expLines, p.row, p.col)
             # PaddedGlyph(actLines, p.row, p.col)}

\* C6: padded diff - on a failure, differences holds, in row-major order,
\* exactly one entry for each position (r, c), r below the larger line count
\* and c below the larger length of line r, at which the padded glyphs of
\* the expected text and of the actual text (the text handed to computeDiff)
\* differ, and no entry for a position where they are equal.
PaddedDiff ==
    (Validated /\ ~vResult.valid) =>
        LET expLines == SplitLines(GridToString(vInput.grid))
            actLines == SplitLines(TrimEnd(vInput.programOutput))
            d == vResult.differences
        IN  /\ {[row |-> d[i].row, col |-> d[i].col] : i \in DOMAIN d}
                 = DifferingPositions(expLines, actLines)
            /\ \A i, j \in DOMAIN d :
                   i < j => \/ d[i].row < d[j].row
                            \/ d[i].row = d[j].row /\ d[i].col < d[j].col
            /\ \A i \in DOMAIN d :
                   /\ d[i].expected
                        = FormatChar(PaddedGlyph(expLines, d[i].row, d[i].col))
                   /\ d[i].actual
                        = FormatChar(PaddedGlyph(actLines, d[i].row, d[i].col))

\* the expected text has more lines and the actual text a longer line, as
\* with 3 lines of length 4 against 2 lines of length 5: entries lie beyond
\* the end of an expected line and on a row the actual text lacks
PaddedDiffWitness ==
    /\ Validated
    /\ ~vResult.valid
    /\ LET expLines == SplitLines(GridToString(vInput.grid))
           actLines == SplitLines(TrimEnd(vInput.programOutput))
           d == vResult.differences
       IN  /\ Len(expLines) > Len(actLines)
           /\ Len(actLines[1]) > Len(expLines[1])
           /\ \E i \in DOMAIN d : d[i].row = 0 /\ d[i].col >= Len(expLines[1])
           /\ \E i \in DOMAIN d : d[i].row >= Len(actLines)
           /\ Len(d) < Len(expLines) * Len(actLines[1])

-----------------------------------------------------------------------------
(* Properties of discoverPredicate on shapes (ShapeSpec) *)

Discovered == dResult # Nil /\ dResult # Fault

\* the centre cell of an n x n grid, n odd
Centre(n) == [row |-> n \div 2, col |-> n \div 2]

\* discovery has run on an n x n grid, n odd, for a symbol that occupies
\* only the centre cell
CentreOnly ==
    /\ Discovered
    /\ dInput.H = dInput.W
    /\ dInput.H % 2 = 1
    /\ dInput.cells = <<Centre(dInput.H)>>

\* C11 as stated: diagonal precedence - on an n x n grid, n odd, a symbol
\* that occupies only the centre cell is discovered as kind diagonal with
\* expression r == c, not anti_diagonal nor any other kind.
DiagonalPrecedence ==
    CentreOnly =>
        /\ dResult.type = "diagonal"
        /\ dResult.expression = <<"r == c">>

\* C11 amended: on an n x n grid, n odd, a symbol that occupies only the
\* centre cell matches neither Diagonal nor Anti-diagonal when n >= 3 (each
\* asks for n cells) and is discovered by the filled-rectangle tester: kind
\* filled_rect, lower bounds H/2 and W/2, scalable, confidence 1.0, an
\* expression that selects the centre cell alone; when n = 1 the cell is
\* the whole grid and the Fill tester's predicate (expression true) is
\* returned.
CentreIsRectangle ==
    CentreOnly =>
        IF dInput.H = 1
        THEN dResult = TryFill(dInput.cells, dInput.char, 1, 1)
        ELSE /\ TryDiagonal(dInput.cells, dInput.char, dInput.H, dInput.W)
                  = Nil
             /\ TryAntiDiagonal(dInput.cells, dInput.char, dInput.H, dInput.W)
                  = Nil
             /\ dResult.type = "filled_rect"
             /\ Len(dResult.expression) = 8
             /\ dResult.expression[2] = "H/2"
             /\ dResult.expression[6] = "W/2"
             /\ dResult.isScalable
             /\ dResult.confidence = 10
             /\ SelectedCells(dResult.expression, dInput.H, dInput.W)
                  = {Centre(dInput.H)}

\* only the centre cell (2,2) of a 5 x 5 grid is occupied
CentreIsRectangleWitness ==
    /\ CentreOnly
    /\ dInput.H = 5
    /\ dInput.cells = <<[row |-> 2, col |-> 2]>>
    /\ dResult.type = "filled_rect"

\* C12: checkerboard tolerance - for H, W >= 3 a symbol that occupies
\* exactly the cells with (r + c) even is discovered as checkerboard with
\* expression (r + c) % 2 == 0, and one that occupies exactly the cells
\* with (r + c) odd as checkerboard with expression (r + c) % 2 == 1, also
\* when H * W is odd and the two classes differ by one cell.
CheckerboardTolerance ==
    (Discovered /\ dInput.H >= 3 /\ dInput.W >= 3) =>
        \A parity \in {0, 1} :
            dInput.cells = RowMajorList(ParityClass(dInput.H, dInput.W, parity),
                                        dInput.H, dInput.W)
              => /\ dResult.type = "checkerboard"
                 /\ dResult.expression =
                        IF parity = 0 THEN <<"(r + c) % 2 == 0">>
                                      ELSE <<"(r + c) % 2 == 1">>

\* the 12 odd-parity cells of a 5 x 5 grid, one fewer than ceil(25 / 2)
CheckerboardToleranceWitness ==
    /\ Discovered
    /\ dInput.H = 5
    /\ dInput.W = 5
    /\ dInput.cells = RowMajorList(ParityClass(5, 5, 1), 5, 5)
    /\ Len(dInput.cells) = 12
    /\ dResult.type = "checkerboard"

-----------------------------------------------------------------------------
(* Properties of parameterizeValue (ParameterizeSpec) *)

\* the rules of the value-to-symbol mapping, in the order of the claim
MappingRules(v, D, name) ==
    << [applies |-> v = 0, text |-> "0"],
       [applies |-> v = D, text |-> name],
       [applies |-> v = D - 1, text |-> name \o "-1"],
       [applies |-> v = D \div 2, text |-> name \o "/2"],
       [applies |-> v = D - 2, text |-> name \o "-2"],
       [applies |-> D % 4 = 0 /\ 4 * v = D, text |-> name \o "/4"],
       [applies |-> D % 3 = 0 /\ 3 * v = D, text |-> name \o "/3"],
       [applies |-> TRUE, text |-> ToString(v)] >>

\* C14: value-to-symbol mapping - for D >= 1 and 0 <= v <= D,
\* parameterizeValue(v, D, name) returns the text of the first applicable
\* rule in the order 0, D, D-1, floor(D/2), D-2, D/4 (D mod 4 = 0), D/3
\* (D mod 3 = 0), else the literal v; and the returned expression,
\* evaluated with truncating integer division at dimension value D,
\* equals v.
ValueToSymbol ==
    pResult # Nil =>
        LET rules == MappingRules(pInput.value, pInput.dimension,
                                  pInput.dimName)
            first == CHOOSE i \in DOMAIN rules :
                         /\ rules[i].applies
                         /\ \A j \in 1..(i - 1) : ~rules[j].applies
        IN  /\ pResult.text = rules[first].text
            /\ EvalParam(pResult.text, pInput.dimension, pInput.dimension)
                  = pInput.value

\* value 2 of dimension 4 is floor(D/2) and D-2 at once (and not D/4):
\* the earlier rule gives H/2
ValueToSymbolWitness ==
    /\ pResult # Nil
    /\ pInput.dimension = 4
    /\ pInput.value = 2
    /\ pResult.text = pInput.dimName \o "/2"

-----------------------------------------------------------------------------
(* Properties of generateCoordinateCondition (ConditionSpec) *)

\* the number of pieces of p equal to s
Occurrences(p, s) == Cardinality({i \in DOMAIN p : p[i] = s})

\* C19: coordinate-set rendering - the condition synthesized for k
\* recorded coordinates is true at exactly those coordinates; for k > 20 it
\* is row-grouped, with one outer clause per distinct row; for
\* 1 <= k <= 20 it is a flat disjunction of exactly k (r==.. && c==..)
\* terms; for k = 0 it is the constant false.
CoordinateRendering ==
    cResult # Nil =>
        LET cells == cInput.cells
            k == Len(cells)
            cond == cResult.condition
            outer == Occurrences(cond, "(r==")
            flat == Occurrences(cond, " && c==")
            joins == Occurrences(cond, " || ")
                       + Occurrences(cond, " ||\n                ")
        IN  /\ k = 0 => cond = <<"false">>
            /\ k > 0 => DisjunctionCells(cond, 1) = CellSet(cells)
            /\ k > 20 =>
                   /\ outer = Cardinality({cells[i].row : i \in DOMAIN cells})
                   /\ Occurrences(cond, " ||\n                ") = outer - 1
            /\ (1 <= k /\ k <= 20) =>
                   /\ outer = k
                   /\ flat = k
                   /\ joins = k - 1
                   /\ Len(cond) = 6 * k - 1

\* 25 coordinates on 3 rows (9, 9 and 7 of them): 3 outer clauses
CoordinateRenderingWitness ==
    /\ cResult # Nil
    /\ Len(cInput.cells) = 25
    /\ Cardinality({cInput.cells[i].row : i \in DOMAIN cInput.cells}) = 3
    /\ Occurrences(cResult.condition, "(r==") = 3
    /\ Occurrences(cResult.condition, " && (") = 3

\* an operand that names no dimension: a decimal literal
IsLiteral(operand) == operand \notin DimForms("H") \cup DimForms("W")

\* C20: a predicate returned by discovery has confidence 1.0 iff it is
\* scalable and confidence 0.0 iff its kind is coordinate_set; otherwise its
\* confidence is 0.5, for a line on a literal row or column, or 0.7, for a
\* rectangle with four literal bounds; a coordinate_set is never scalable.
ConfidenceLevels ==
    Discovered =>
        /\ dResult.confidence = 10 <=> dResult.isScalable
        /\ dResult.confidence = 0 <=> dResult.type = "coordinate_set"
        /\ dResult.type = "coordinate_set" => ~dResult.isScalable
        /\ dResult.confidence \in {10, 7, 5, 0}
        /\ dResult.confidence = 5 <=>
               /\ dResult.type \in {"horizontal_line", "vertical_line"}
               /\ IsLiteral(dResult.expression[2])
        /\ dResult.confidence = 7 <=>
               /\ dResult.type = "filled_rect"
               /\ Len(dResult.expression) = 8
               /\ \A i \in {2, 4, 6, 8} : IsLiteral(dResult.expression[i])

\* a rectangle none of whose bounds relates to H or W: confidence 0.7
ConfidenceLevelsWitness ==
    /\ Discovered
    /\ dResult.type = "filled_rect"
    /\ dResult.confidence = 7
    /\ ~dResult.isScalable
    /\ dInput.H = 5
    /\ dInput.W = 5

-----------------------------------------------------------------------------
(* Properties of the predicates discovered (DiscoverSpec, ShapeSpec) *)

\* the pieces of an expression that mention the dimension name
PiecesNaming(dimName) ==
    DimForms(dimName)
      \cup {"r == 0 || r == H-1 || c == 0 || c == W-1"}
      \cup (IF dimName = "H" THEN {"r + c == H - 1 && c < H"}
                             ELSE {"r + c == W - 1 && r < W"})

\* the dimension names that occur in an expression, H before W
NamesIn(expression) ==
    SelectSeq(<<"H", "W">>,
              LAMBDA dimName : \E i \in DOMAIN expression :
                                   expression[i] \in PiecesNaming(dimName))

\* C21: the parameters list of a predicate returned by discovery holds
\* exactly the dimension names (H, W) that occur in its expression, and is
\* empty for coordinate_set; a predicate whose expression mentions neither
\* H nor W has no parameters.
ParamsAreNamesInExpression ==
    Discovered =>
        /\ dResult.params = NamesIn(dResult.expression)
        /\ dResult.type = "coordinate_set" => dResult.params = <<>>

\* the cell set the tester of the predicate's kind expects on an H x W grid
ExpectedAt(pred, H, W) ==
    CASE pred.type = "filled_rect" -> [row : 0..(H - 1), col : 0..(W - 1)]
      [] pred.type = "border" -> ExpectedBorder(H, W)
      [] pred.type = "diagonal" -> MainDiagonal(H, W)
      [] pred.type = "anti_diagonal" -> AntiDiagonal(H, W)
      [] pred.type = "checkerboard" ->
             ParityClass(H, W, IF pred.expression = <<"(r + c) % 2 == 0">>
                               THEN 0 ELSE 1)

\* a scalable predicate of kind fill (expression true), border, diagonal,
\* anti_diagonal or checkerboard has been discovered
SymbolicPredicate ==
    /\ Discovered
    /\ dResult.isScalable
    /\ \/ dResult.expression = <<"true">>
       \/ dResult.type \in {"border", "diagonal", "anti_diagonal",
                             "checkerboard"}

\* C22: scalability of symbolic predicates - the stored expression of a
\* scalable predicate of kind fill, border, diagonal, anti_diagonal or
\* checkerboard discovered on an H x W grid, evaluated on a grid of any
\* other dimensions H2 x W2 >= 1, selects exactly the cell set the same
\* kind's tester expects at H2 x W2 (for anti_diagonal the cells
\* (i, m-1-i), m = min(H2, W2), whichever of H2, W2 is the smaller).
ScalesToOtherDimensions ==
    SymbolicPredicate =>
        \A H2 \in 1..MaxSide, W2 \in 1..MaxSide :
            SelectedCells(dResult.expression, H2, W2)
              = ExpectedAt(dResult, H2, W2)

-----------------------------------------------------------------------------
(* Properties of the difference report (FormatSpec) *)

Formatted == fResult # Nil

\* the lines of the report
ReportLines == SplitLines(fResult.text)

\* the line that itemizes one difference
ItemLine(d) ==
    <<"  Row ", ToString(d.row), ", Col ", ToString(d.col), ": ">>
      \o <<"expected ">> \o d.expected \o <<", got ">> \o d.actual

\* the line that counts the differences left out
IsMoreLine(line, k) ==
    line = <<"  ... and ", ToString(k), " more differences">>

\* C23: the report of a valid result is one confirmation line; the report of
\* an invalid result with n differences is a header, a blank line, one line
\* for each of the first min(n, 10) differences in order, and one more line
\* with the count n - 10 if and only if n > 10
ReportListsFirstTen ==
    Formatted =>
        LET n == Len(fInput.differences)
            m == IF n < 10 THEN n ELSE 10
        IN  IF fInput.valid
            THEN ReportLines = <<<<"Output matches grid exactly.">>>>
            ELSE /\ Len(ReportLines) = 2 + m + (IF n > 10 THEN 1 ELSE 0)
                 /\ ReportLines[1] = <<"Output does not match grid:">>
                 /\ ReportLines[2] = <<>>
                 /\ \A i \in 1..m :
                       ReportLines[2 + i] = ItemLine(fInput.differences[i])
                 /\ n > 10 => IsMoreLine(ReportLines[m + 3], n - 10)
                 /\ n <= 10 => \A i \in DOMAIN ReportLines :
                                  \A k \in 0..n : ~IsMoreLine(ReportLines[i], k)

\* a report that leaves differences out has been written
ReportListsFirstTenWitness ==
    /\ Formatted
    /\ ~fInput.valid
    /\ Len(fInput.differences) > 10
    /\ Len(ReportLines) = 13

-----------------------------------------------------------------------------
(* Properties of the Grid (AnalysisSpec, GridSpec) *)

\* the places (entry, position) of the map returned by getCellsByChar that
\* hold coordinate co
PlacesOf(m, co) ==
    {pl \in (DOMAIN m) \X (1..(grid.rows * grid.cols)) :
        /\ pl[2] \in DOMAIN m[pl[1]].value
        /\ m[pl[1]].value[pl[2]] = co}

\* the position of a coordinate in the row-major scan
ScanIndex(g, co) == co.row * g.cols + co.col

\* C24: getCellsByChar() partitions the occupied cells - every occupied
\* coordinate is listed exactly once, under the symbol it holds; no empty
\* cell and nothing outside the grid is listed; every list is in row-major
\* order; the symbols are keyed in the order of their first occurrence
CellsByCharPartition ==
    analysis # Nil =>
        LET m == GetCellsByChar(grid)
        IN  /\ \A co \in [row : 0..(grid.rows - 1), col : 0..(grid.cols - 1)] :
                  LET ch == grid.cells[co.row][co.col].char
                  IN  IF ch = Null THEN PlacesOf(m, co) = {}
                      ELSE /\ Cardinality(PlacesOf(m, co)) = 1
                           /\ \A pl \in PlacesOf(m, co) : m[pl[1]].key = ch
            /\ \A i \in DOMAIN m : \A j \in DOMAIN m[i].value :
                  IsValidCoord(grid, m[i].value[j].row, m[i].value[j].col)
            /\ \A i \in DOMAIN m : \A j, k \in DOMAIN m[i].value :
                  j < k => ScanIndex(grid, m[i].value[j])
                             < ScanIndex(grid, m[i].value[k])
            /\ \A i, j \in DOMAIN m :
                  i < j => /\ m[i].key # m[j].key
                           /\ FirstOccurrence(grid, m[i].key)
                                < FirstOccurrence(grid, m[j].key)

\* two symbols, each on two cells, in a grid of more than one row and column
CellsByCharPartitionWitness ==
    /\ analysis # Nil
    /\ grid.rows > 1
    /\ grid.cols > 1
    /\ Len(GetCellsByChar(grid)) = 2
    /\ \A i \in DOMAIN GetCellsByChar(grid) :
          Len(GetCellsByChar(grid)[i].value) >= 2

\* a call on the grid has just been made
Called == gCall # Nil

\* (row, col) lies outside [0, rows) x [0, cols)
Outside(g, row, col) == row < 0 \/ row >= g.rows \/ col < 0 \/ col >= g.cols

\* C25: outside the bounds getCell returns null and setCell returns false
\* and leaves the whole grid as it was; inside the bounds getCell returns the
\* stored cell
BoundsChecked ==
    [][writes' = writes + 1 =>
          /\ gCall'.op = "getCell" =>
                gCall'.returned = IF Outside(grid, gCall'.row, gCall'.col)
                                  THEN Nil
                                  ELSE grid.cells[gCall'.row][gCall'.col]
          /\ (gCall'.op = "setCell" /\ Outside(grid, gCall'.row, gCall'.col))
                => gCall'.returned = FALSE /\ grid' = grid]_vars

\* both calls have been made outside the bounds, after a call inside them
BoundsCheckedWitness ==
    /\ Called
    /\ gCall.op \in {"getCell", "setCell"}
    /\ Outside(grid, gCall.row, gCall.col)
    /\ writes > 1

\* C26: an in-bounds write of a symbol is applied iff its strokeId is at
\* least the stored one, an erase always; an applied write stores the given
\* character and strokeId and returns true; a rejected write returns false
\* and leaves the cell as it was; no other cell changes
WritePrecedence ==
    [][(writes' = writes + 1 /\ gCall'.op = "setCell"
          /\ ~Outside(grid, gCall'.row, gCall'.col)) =>
          LET old == grid.cells[gCall'.row][gCall'.col]
              new == grid'.cells[gCall'.row][gCall'.col]
              applied == gCall'.char = Null \/ gCall'.strokeId >= old.strokeId
          IN  /\ gCall'.returned = applied
              /\ applied => /\ new.char = gCall'.char
                             /\ new.strokeId = gCall'.strokeId
              /\ ~applied => new = old
              /\ grid'.rows = grid.rows /\ grid'.cols = grid.cols
              /\ \A r \in 0..(grid.rows - 1), c \in 0..(grid.cols - 1) :
                    (r # gCall'.row \/ c # gCall'.col)
                        => grid'.cells[r][c] = grid.cells[r][c]]_vars

\* a symbol has been written with the strokeId the cell already had, next to
\* a cell that holds another stroke
WritePrecedenceWitness ==
    /\ Called
    /\ gCall.op = "setCell"
    /\ ~Outside(grid, gCall.row, gCall.col)
    /\ gCall.char # Null
    /\ gCall.returned
    /\ \E r \in 0..(grid.rows - 1), c \in 0..(grid.cols - 1) :
          grid.cells[r][c].strokeId > gCall.strokeId

\* a symbol written with an older strokeId than the stored one was rejected
WriteRejected ==
    /\ Called
    /\ gCall.op = "setCell"
    /\ ~Outside(grid, gCall.row, gCall.col)
    /\ ~gCall.returned

\* C27: every empty cell of a grid has strokeId -1, whatever calls of
\* setCell, clear and restore were made on it
EmptyCellsHaveNoStroke ==
    grid # Nil =>
    \A r \in 0..(grid.rows - 1), c \in 0..(grid.cols - 1) :
        grid.cells[r][c].char = Null => grid.cells[r][c].strokeId = -1

-----------------------------------------------------------------------------
(* Properties of the editor (CanvasSpec) *)

\* C28: every Grid reachable from the CanvasManager, each frame and the
\* background, stores a cell matrix of exactly rows x cols cells
GridShapeInvariant ==
    canvas # Nil => \A g \in CanvasGrids(canvas) : ShapeOk(g)

\* the cells of every frame and of the background
AllCells(cm) ==
    [frames |-> [i \in DOMAIN cm.frameManager.frames |->
                    cm.frameManager.frames[i].cells],
     background |-> cm.backgroundGrid.cells]

\* the edits: the flips, clear, and a stroke between two cells
EditNames(cm) ==
    {<<"flipHorizontal">>, <<"flipVertical">>, <<"clear">>}
      \cup {<<"stroke", from, to>> : from \in SnapCoords(cm),
                                     to \in SnapCoords(cm)}

\* the canvas the edit e leaves
Edit(cm, e) ==
    CASE e[1] = "flipHorizontal" -> Ticked(FlipHorizontal(cm))
      [] e[1] = "flipVertical" -> Ticked(FlipVertical(cm))
      [] e[1] = "clear" -> Ticked(Clear(cm))
      [] e[1] = "stroke" -> Stroke(cm, e[2], e[3])

\* a change of layer or of frame, or none
NavigationNames == {"none", "background", "foreground", "next", "prev"}

Navigation(cm, n) ==
    CASE n = "none" -> cm
      [] n = "background" -> Ticked(SetActiveLayer(cm, "background"))
      [] n = "foreground" -> Ticked(SetActiveLayer(cm, "foreground"))
      [] n = "next" -> Ticked([cm EXCEPT !.frameManager = NextFrame(@)])
      [] n = "prev" -> Ticked([cm EXCEPT !.frameManager = PrevFrame(@)])

\* k more undos
RECURSIVE Undos(_, _)
Undos(cm, k) ==
    IF k = 0 \/ cm.clock < 0 THEN cm ELSE Undos(Ticked(Undo(cm)), k - 1)

\* the handlers can run on the canvas
Editable == canvas # Nil /\ \A g \in CanvasGrids(canvas) : ShapeOk(g)

\* C29: after one edit (stroke, shape, flip or clear) undo() returns every
\* grid to its cells before the edit and a following redo() to its cells
\* after the edit; two edits, with a change of layer or frame between them
\* or none, followed by two undos return every grid to its cells before the
\* first edit, and so do 50 edits followed by 50 undos
UndoRedoRoundTrip ==
    Editable =>
        /\ canvas.clock + 1 <= MaxCanvasOps => \A e \in EditNames(canvas) :
              LET a == Edit(canvas, e)
                  u == Ticked(Undo(a))
              IN  /\ AllCells(u) = AllCells(canvas)
                  /\ AllCells(Redo(u)) = AllCells(a)
        /\ canvas.clock + 2 <= MaxCanvasOps =>
              \A e \in EditNames(canvas), n \in NavigationNames :
                 LET m == Navigation(Edit(canvas, e), n)
                 IN  \A f \in EditNames(m) :
                        AllCells(Undo(Ticked(Undo(Edit(m, f)))))
                          = AllCells(canvas)
        /\ canvas.clock <= 1 =>
              AllCells(Undos(Edits(canvas, 50), 50)) = AllCells(canvas)

\* an edit that changed a cell has been undone
UndoRedoRoundTripWitness ==
    /\ Editable
    /\ canvas.redoStack # <<>>
    /\ AllCells(Redo(canvas)) # AllCells(canvas)

\* every grid but the one numbered id has in after the cells it has in before
OthersKept(before, after, id) ==
    \A g \in CanvasGrids(before), h \in CanvasGrids(after) :
        (g.id = h.id /\ g.id # id) => h.cells = g.cells

\* the background is the Grid the constructor made: resize has not run
NeverResized(cm) == cm.backgroundGrid.id = NewCanvasManager(1, 1).backgroundGrid.id

\* C30: after edits, frame additions and deletions of the current frame, an
\* undo or a redo changes only the grid from which the snapshot it pops was
\* taken; the cells of every other frame stay as they were
OnlySnapshotGridChanges ==
    (Editable /\ NeverResized(canvas)) =>
        /\ canvas.undoStack # <<>> =>
              OthersKept(canvas, Undo(canvas),
                         canvas.undoStack[Len(canvas.undoStack)].of)
        /\ canvas.redoStack # <<>> =>
              OthersKept(canvas, Redo(canvas),
                         canvas.redoStack[Len(canvas.redoStack)].of)

\* the canvases the handlers that call saveUndoState leave: a pointer-down
\* at any cell, a flip, clear
AfterSaving(cm) ==
    {StartDrawing(cm, coord) : coord \in SnapCoords(cm)}
      \cup {FlipHorizontal(cm), FlipVertical(cm), Clear(cm)}

\* the entry at the top of a stack
Top(stack) == stack[Len(stack)]

\* a stack without its top entry
Popped(stack) == SubSeq(stack, 1, Len(stack) - 1)

\* C31: the undo stack holds at most 50 entries and the two stacks together
\* at most 50; an edit on a full undo stack discards its oldest entry and
\* puts the snapshot of the edited grid on top, an edit on a shorter stack
\* only adds it; undo and redo take the top entry of one stack and add one
\* entry for the same layer and frame to the other, the total unchanged
HistoryBound ==
    Editable =>
        /\ Len(canvas.undoStack) <= 50
        /\ Len(canvas.undoStack) + Len(canvas.redoStack) <= 50
        /\ \A a \in AfterSaving(canvas) :
              /\ Top(a.undoStack).snapshot = GetGrid(canvas).cells
              /\ Popped(a.undoStack) =
                    IF Len(canvas.undoStack) = 50 THEN Tail(canvas.undoStack)
                    ELSE canvas.undoStack
        /\ canvas.undoStack # <<>> =>
              LET u == Undo(canvas)
              IN  /\ u.undoStack = Popped(canvas.undoStack)
                  /\ Popped(u.redoStack) = canvas.redoStack
                  /\ Top(u.redoStack).layer = Top(canvas.undoStack).layer
                  /\ Top(u.redoStack).frameIdx = Top(canvas.undoStack).frameIdx
        /\ canvas.redoStack # <<>> =>
              LET r == Redo(canvas)
              IN  /\ r.redoStack = Popped(canvas.redoStack)
                  /\ Popped(r.undoStack) = canvas.undoStack
                  /\ Top(r.undoStack).layer = Top(canvas.redoStack).layer
                  /\ Top(r.undoStack).frameIdx = Top(canvas.redoStack).frameIdx

\* an edit has discarded the oldest entry of a full undo stack, and an undo
\* has then moved an entry to the redo stack
HistoryBoundWitness ==
    /\ Editable
    /\ Len(canvas.undoStack) = 49
    /\ Len(canvas.redoStack) = 1
    /\ LET full == Edits(NewCanvasManager(1, 1), 50).undoStack
       IN  canvas.undoStack = Tail(full)

\* C32: a pointer-down, a flip or clear leaves the redo stack empty, and a
\* redo() after it changes nothing of the canvas: no grid, no stack, no
\* active layer and no frame index; redo() on an empty redo stack and
\* undo() on an empty undo stack change nothing
EditEmptiesRedo ==
    Editable =>
        /\ writes < MaxCanvasOps =>
              \A a \in AfterSaving(canvas) :
                 a.redoStack = <<>> /\ Redo(Ticked(a)) = Ticked(a)
        /\ canvas.redoStack = <<>> => Redo(canvas) = canvas
        /\ canvas.undoStack = <<>> => Undo(canvas) = canvas

\* three handlers have run: a pointer-down, an undo and a second
\* pointer-down, after which the redo stack is empty
EditEmptiesRedoWitness ==
    /\ Editable
    /\ writes = 3
    /\ canvas.strokeId = 2
    /\ Len(canvas.undoStack) = 1
    /\ canvas.redoStack = <<>>

\* an undo has left an entry to redo and none to undo
NothingToUndo ==
    /\ Editable
    /\ canvas.undoStack = <<>>
    /\ canvas.redoStack # <<>>

-----------------------------------------------------------------------------
(* Properties of the frames and of the store (CanvasSpec, StorageSpec) *)

\* no cell of g holds a symbol
IsBlank(g) ==
    \A r \in DOMAIN g.cells : \A c \in DOMAIN g.cells[r] :
        g.cells[r][c].char = Null

\* C33: the FrameManager holds at least one frame and its index names one
\* of them, also once loadFrames has run with no frames; on a single frame
\* deleteCurrentFrame keeps the frame and leaves it blank, nextFrame at the
\* last frame and prevFrame at the first leave the index as it is
FrameIndexInvariant ==
    canvas # Nil =>
        LET fm == canvas.frameManager
        IN  /\ Len(fm.frames) >= 1
            /\ fm.currentFrameIndex \in 0..(Len(fm.frames) - 1)
            /\ Editable =>
                  /\ \A d \in CanvasDims :
                        LET l == LoadFrames(fm, <<>>, d[1], d[2], Now(canvas),
                                            canvas.allocated)
                        IN  Len(l.frames) = 1 /\ l.currentFrameIndex = 0
                  /\ Len(fm.frames) = 1 =>
                        LET d == DeleteCurrentFrame(fm)
                        IN  /\ Len(d.frames) = 1
                            /\ d.frames[1].id = fm.frames[1].id
                            /\ IsBlank(d.frames[1])
                            /\ d.currentFrameIndex = 0
                  /\ fm.currentFrameIndex = Len(fm.frames) - 1 =>
                        NextFrame(fm).currentFrameIndex = fm.currentFrameIndex
                  /\ fm.currentFrameIndex = 0 =>
                        PrevFrame(fm).currentFrameIndex = 0

\* loadFrames has run with no frames as the first handler, and has put one
\* new frame in the place of the constructor's
FrameIndexInvariantWitness ==
    /\ Editable
    /\ writes = 1
    /\ Len(canvas.frameManager.frames) = 1
    /\ canvas.frameManager.frames[1].id > canvas.backgroundGrid.id

\* the characters of the cells of g
CharsOf(g) ==
    [r \in DOMAIN g.cells |-> [c \in DOMAIN g.cells[r] |->
        g.cells[r][c].char]]

\* C34: addFrame(true) appends one frame that holds, cell for cell, the
\* characters of the frame that was current, makes it the current frame
\* and leaves the frames there were as they are
CopyFrameCopiesCurrent ==
    Editable =>
        LET fm == canvas.frameManager
            added == AddFrame(fm, TRUE, Now(canvas), canvas.allocated)
        IN  /\ Len(added.frames) = Len(fm.frames) + 1
            /\ SubSeq(added.frames, 1, Len(fm.frames)) = fm.frames
            /\ added.currentFrameIndex = Len(fm.frames)
            /\ CharsOf(GetCurrentGrid(added)) = CharsOf(GetCurrentGrid(fm))

\* addFrame(true) appends a copy of the last frame
CopyFrameCopiesLast ==
    Editable =>
        LET fm == canvas.frameManager
            added == AddFrame(fm, TRUE, Now(canvas), canvas.allocated)
        IN  /\ Len(added.frames) = Len(fm.frames) + 1
            /\ SubSeq(added.frames, 1, Len(fm.frames)) = fm.frames
            /\ added.currentFrameIndex = Len(fm.frames)
            /\ CharsOf(GetCurrentGrid(added))
                  = CharsOf(fm.frames[Len(fm.frames)])

\* the frames and the background, in one sequence
GridsOf(cm) == cm.frameManager.frames \o <<cm.backgroundGrid>>

\* g is old resized to rows x cols: the cells of the overlap satisfy kept,
\* the others are empty
Resized(old, g, rows, cols, kept(_, _)) ==
    /\ g.rows = rows
    /\ g.cols = cols
    /\ DOMAIN g.cells = 0..(rows - 1)
    /\ \A r \in 0..(rows - 1) :
          /\ DOMAIN g.cells[r] = 0..(cols - 1)
          /\ \A c \in 0..(cols - 1) :
                IF r < old.rows /\ c < old.cols
                THEN kept(old.cells[r][c], g.cells[r][c])
                ELSE g.cells[r][c].char = Null

\* C35: resize(rows, cols) leaves every frame and the background with rows
\* x cols cells, each cell of the overlap with the character and the
\* strokeId it had and every other cell empty, and leaves the number of
\* frames and the current frame index as they are
ResizePreservesOverlap ==
    Editable =>
        \A d \in CanvasDims :
            LET after == Resize(canvas, d[1], d[2])
            IN  /\ Len(after.frameManager.frames)
                      = Len(canvas.frameManager.frames)
                /\ after.frameManager.currentFrameIndex
                      = canvas.frameManager.currentFrameIndex
                /\ \A i \in DOMAIN GridsOf(canvas) :
                      Resized(GridsOf(canvas)[i], GridsOf(after)[i],
                              d[1], d[2],
                              LAMBDA o, n : /\ n.char = o.char
                                            /\ n.strokeId = o.strokeId)

\* resize keeps the character of each cell of the overlap, and the strokeId
\* of those that hold a symbol
ResizePreservesSymbols ==
    Editable =>
        \A d \in CanvasDims :
            LET after == Resize(canvas, d[1], d[2])
            IN  /\ Len(after.frameManager.frames)
                      = Len(canvas.frameManager.frames)
                /\ after.frameManager.currentFrameIndex
                      = canvas.frameManager.currentFrameIndex
                /\ \A i \in DOMAIN GridsOf(canvas) :
                      Resized(GridsOf(canvas)[i], GridsOf(after)[i],
                              d[1], d[2],
                              LAMBDA o, n :
                                  /\ n.char = o.char
                                  /\ o.char # Null
                                        => n.strokeId = o.strokeId)

\* the cells of g that hold a symbol
Occupied(g) ==
    {co \in [row : 0..(g.rows - 1), col : 0..(g.cols - 1)] :
        g.cells[co.row][co.col].char # Null}

\* C36: flipHorizontal leaves at (r, cols-1-c) the character that was at
\* (r, c), flipVertical at (rows-1-r, c), for every cell of the grid of the
\* active layer; the same flip made twice leaves every character where it
\* was, and a flip leaves as many occupied cells as there were
FlipsAreMirrors ==
    (Editable /\ writes < MaxCanvasOps) =>
        LET g == GetGrid(canvas)
            h == GetGrid(FlipHorizontal(canvas))
            v == GetGrid(FlipVertical(canvas))
            hh == GetGrid(FlipHorizontal(Ticked(FlipHorizontal(canvas))))
            vv == GetGrid(FlipVertical(Ticked(FlipVertical(canvas))))
        IN  /\ \A r \in 0..(g.rows - 1), c \in 0..(g.cols - 1) :
                  /\ h.cells[r][g.cols - 1 - c].char = g.cells[r][c].char
                  /\ v.cells[g.rows - 1 - r][c].char = g.cells[r][c].char
            /\ CharsOf(hh) = CharsOf(g)
            /\ CharsOf(vv) = CharsOf(g)
            /\ Cardinality(Occupied(h)) = Cardinality(Occupied(g))
            /\ Cardinality(Occupied(v)) = Cardinality(Occupied(g))

\* two handlers have run, a pointer-down and a flip: the symbol that the
\* snapshot taken by the flip holds at one cell is now at another cell only
FlipsAreMirrorsWitness ==
    /\ Editable
    /\ writes = 2
    /\ Len(canvas.undoStack) = 2
    /\ \E co \in Occupied(GetGrid(canvas)) :
          /\ Top(canvas.undoStack).snapshot[co.row][co.col].char = Null
          /\ \E from \in SnapCoords(canvas) :
                /\ from # co
                /\ Top(canvas.undoStack).snapshot[from.row][from.col].char
                      # Null
                /\ from \notin Occupied(GetGrid(canvas))

\* the frames loadFrames makes of the frames, rows and cols of pattern
Reloaded(pattern) ==
    LoadFrames(canvas.frameManager, pattern.frames, pattern.rows,
               pattern.cols, Now(canvas), canvas.allocated).frames

\* frames holds as many grids as grids, with the same character cell for cell
SameCharacters(frames, grids) ==
    /\ Len(frames) = Len(grids)
    /\ \A i \in DOMAIN grids : CharsOf(frames[i]) = CharsOf(grids[i])

\* C37: the store holds at most one pattern of a name; loadPattern(name)
\* returns null if no pattern of that name has been saved since the last
\* deletePattern(name), else a pattern from which loadFrames makes as many
\* frames as were last saved under the name, with the same character in
\* every cell; savePattern leaves the patterns of the other names as they
\* are and deletePattern removes the one of its name only
StorageRoundTrip ==
    (canvas # Nil /\ storage # Nil) =>
        LET saves == GetSaves(storage)
        IN  /\ \A i, j \in DOMAIN saves :
                  saves[i].name = saves[j].name => i = j
            /\ \A name \in Names :
                  LET pattern == LoadPattern(storage, name)
                  IN  IF sSaved[name] = Nil THEN pattern = Nil
                      ELSE /\ pattern # Nil
                           /\ pattern.name = name
                           /\ SameCharacters(Reloaded(pattern),
                                             sSaved[name].grids)
            /\ Editable =>
                  \A name \in Names : \A other \in Names \ {name} :
                     /\ SameCharacters(
                            Reloaded(LoadPattern(
                                SavePattern(storage, name,
                                            canvas.frameManager.frames,
                                            Now(canvas)), name)),
                            canvas.frameManager.frames)
                     /\ LoadPattern(SavePattern(storage, name,
                                                canvas.frameManager.frames,
                                                Now(canvas)), other)
                           = LoadPattern(storage, other)
                     /\ LoadPattern(DeletePattern(storage, name), other)
                           = LoadPattern(storage, other)
                     /\ LoadPattern(DeletePattern(storage, name), name) = Nil

\* three handlers have run, a stroke, a save and a load: the frames are new
\* Grids that hold the symbol saved
StorageRoundTripWitness ==
    /\ Editable
    /\ storage # Nil
    /\ writes = 3
    /\ canvas.frameManager.frames[1].id > canvas.backgroundGrid.id
    /\ \E name \in Names :
          /\ sSaved[name] # Nil
          /\ SameCharacters(canvas.frameManager.frames, sSaved[name].grids)
          /\ Occupied(sSaved[name].grids[1]) # {}

====
